---- MODULE Spec2Model ----
(***************************************************************************)
(* Model of the breakpoint / stepping state machine of the V8 debugger     *)
(* (src/debug/debug.cc as carried by replayio/node).                       *)
(*                                                                         *)
(* The debugged program is a fixed set of small functions, each given by   *)
(* its original bytecode and its source position table.  The interpreter   *)
(* executes one bytecode per step; a patched bytecode calls Debug::Break,  *)
(* a call with the function-call hook armed calls Debug::PrepareStepIn and *)
(* a generator resume calls Debug::PrepareStepInSuspendedGenerator.        *)
(* The controller (debug delegate) answers each break report with a step   *)
(* request or a plain resume and may set and remove breakpoints.           *)
(***************************************************************************)
EXTENDS Integers, Sequences, FiniteSets, TLC

\* ------------------------------------------------------------------------
\* Bounds of the model (not program constants).
\* ------------------------------------------------------------------------
MaxDepth == 4
MaxBreakpointId == 2
MaxStepBreakpointId == 1
MaxLocs == 3
MaxPos == 3

\* ------------------------------------------------------------------------
\* Program constants.
\* ------------------------------------------------------------------------
kNoSourcePosition == -1
kBreakAtEntryPosition == 0
NO_ID == 0
NoGenerator == "none"
NoFunction == "Smi::zero"

\* StepAction; LastStepAction == StepInto is the greatest one.
StepNone == "StepNone"
StepOut == "StepOut"
StepOver == "StepOver"
StepInto == "StepInto"
StepActions == {StepOut, StepOver, StepInto}

\* ------------------------------------------------------------------------
\* Bytecodes.  One array element per bytecode; a scaling prefix is an
\* element of its own in front of the bytecode it scales.
\* ------------------------------------------------------------------------
PrefixBytecodes == {"Wide", "ExtraWide"}
DebugBreakBytecodes == {"DebugBreak", "DebugBreakWide", "DebugBreakExtraWide"}
CallBytecodes == {"Call", "Construct"}

IsPrefixScalingBytecode(b) == b \in PrefixBytecodes
IsDebugBreak(b) == b \in DebugBreakBytecodes
IsCallOrConstruct(b) == b \in CallBytecodes

GetDebugBreak(b) ==
  IF b = "Wide" THEN "DebugBreakWide"
  ELSE IF b = "ExtraWide" THEN "DebugBreakExtraWide"
  ELSE "DebugBreak"

\* bytecode_array.get(offset): offsets start at 0.
ByteAt(arr, offset) == arr[offset + 1]
SetByte(arr, offset, b) == [arr EXCEPT ![offset + 1] = b]

\* BytecodeArrayIterator::ApplyDebugBreak on the bytecode at `offset`.
ApplyDebugBreak(arr, offset) ==
  IF IsDebugBreak(ByteAt(arr, offset)) THEN arr
  ELSE SetByte(arr, offset, GetDebugBreak(ByteAt(arr, offset)))

\* ------------------------------------------------------------------------
\* The debugged program.
\* ------------------------------------------------------------------------
\* "ext" is a function of an extension script (not subject to debugging);
\* "lazy" has not been compiled yet and its compilation fails; "s" stores
\* to a property of an object; "t" is one statement, `return` of an
\* expression that calls r, bb and api and ends in the Return; "api" is an
\* API function: no bytecode, not subject to debugging, breaks at entry.
Funcs == {"main", "f", "r", "bb", "gen", "k", "ext", "lazy", "s", "t", "api"}

OriginalBytecode ==
  [fn \in Funcs |->
     CASE fn = "main" -> <<"Ldar", "Call", "GetNamedProperty", "Call",
                           "Call", "Call", "Call", "Return">>
       [] fn = "f"    -> <<"Ldar", "Wide", "Ldar", "Return">>
       [] fn = "r"    -> <<"Ldar", "Add", "Call", "Return">>
       [] fn = "bb"   -> <<"Ldar", "Return">>
       [] fn = "gen"  -> <<"SuspendGenerator", "Ldar", "SuspendGenerator",
                           "SuspendGenerator", "Return">>
       [] fn = "k"    -> <<"Ldar", "Call", "SuspendGenerator", "Debugger",
                           "Wide", "Ldar", "Add", "Return">>
       [] fn = "ext"  -> <<"Ldar", "Return">>
       [] fn = "lazy" -> <<"Return">>
       [] fn = "s"    -> <<"Ldar", "StaNamedProperty", "Return">>
       [] fn = "t"    -> <<"Ldar", "Call", "Call", "Call", "Return">>
       [] fn = "api"  -> << >>]

Entry(o, p, s) == [code_offset |-> o, source_position |-> p, is_statement |-> s]

SourcePositionTable ==
  [fn \in Funcs |->
     CASE fn = "main" -> <<Entry(0, 1, TRUE), Entry(1, 2, TRUE),
                           Entry(2, 3, FALSE), Entry(3, 4, TRUE),
                           Entry(4, 5, TRUE), Entry(5, 6, TRUE),
                           Entry(6, 7, TRUE), Entry(7, 8, TRUE)>>
       [] fn = "f"    -> <<Entry(0, 11, TRUE), Entry(1, 12, TRUE),
                           Entry(3, 13, TRUE)>>
       [] fn = "r"    -> <<Entry(0, 21, TRUE), Entry(1, 22, FALSE),
                           Entry(2, 22, FALSE), Entry(3, 23, TRUE)>>
       [] fn = "bb"   -> <<Entry(0, 41, TRUE), Entry(1, 42, TRUE)>>
       [] fn = "gen"  -> <<Entry(0, 30, FALSE), Entry(1, 31, TRUE),
                           Entry(2, 32, TRUE), Entry(3, 33, TRUE),
                           Entry(4, 34, TRUE)>>
       [] fn = "k"    -> <<Entry(0, 51, TRUE), Entry(1, 52, FALSE),
                           Entry(2, 53, FALSE), Entry(3, 54, TRUE),
                           Entry(4, 55, TRUE), Entry(6, 55, FALSE),
                           Entry(7, 56, TRUE)>>
       [] fn = "ext"  -> <<Entry(0, 61, TRUE), Entry(1, 62, TRUE)>>
       [] fn = "lazy" -> <<Entry(0, 71, TRUE)>>
       [] fn = "s"    -> <<Entry(0, 81, TRUE), Entry(1, 82, FALSE),
                           Entry(2, 83, TRUE)>>
       [] fn = "t"    -> <<Entry(0, 91, TRUE), Entry(1, 92, FALSE),
                           Entry(2, 93, FALSE), Entry(3, 94, FALSE),
                           Entry(4, 95, FALSE)>>
       [] fn = "api"  -> << >>]

StartPosition ==
  [fn \in Funcs |->
     CASE fn = "main" -> 0 [] fn = "f" -> 10 [] fn = "r" -> 20
       [] fn = "bb" -> 40 [] fn = "gen" -> 30 [] fn = "k" -> 50
       [] fn = "ext" -> 60 [] fn = "lazy" -> 70 [] fn = "s" -> 80
       [] fn = "t" -> 90 [] fn = "api" -> 100]

\* Operand 3 of SuspendGenerator: the suspend id (0 = implicit initial yield).
SuspendId ==
  [fn \in Funcs |->
     CASE fn = "gen" -> [o \in {0} |-> 0] @@ [o \in {2} |-> 1]
                        @@ [o \in {3} |-> 2]
       [] fn = "k"   -> [o \in {2} |-> 1]
       [] OTHER      -> [o \in {} |-> 0]]

\* What the program does at a call: call a function, create the generator
\* (a call of the generator function), or resume it (generator.next()).
\* GetNamedProperty in main runs a getter, a call that is no break location.
CallTarget ==
  [fn \in Funcs |->
     CASE fn = "main" -> [o \in {1} |-> "f"] @@ [o \in {2} |-> "r"]
                         @@ [o \in {3} |-> "bb"] @@ [o \in {4} |-> "gen"]
                         @@ [o \in {5, 6} |-> "next"]
       [] fn = "r"    -> [o \in {2} |-> "r"]
       [] fn = "t"    -> [o \in {1} |-> "r"] @@ [o \in {2} |-> "bb"]
                         @@ [o \in {3} |-> "api"]
       [] OTHER       -> [o \in {} |-> "f"]]

\* The handler tables: main reads the property (the getter r) inside a try
\* block whose handler is the code after it; code offset -> handler offset.
HandlerTable ==
  [fn \in Funcs |->
     CASE fn = "main" -> [o \in {2} |-> 3]
       [] OTHER       -> [o \in {} |-> 0]]

\* Where the program may throw: <<function, code offset>>.
ThrowSites == {<<"f", 1>>, <<"r", 1>>}

IsGeneratorFunction(fn) == fn \in {"gen"}
\* SharedFunctionInfo::IsSubjectToDebugging, native()/IsApiFunction().
IsSubjectToDebugging(fn) == fn \notin {"ext", "api"}
IsNativeOrApi(fn) == fn = "api"
\* The delegate's answers (IsFunctionBlackboxed, ShouldBeSkipped).
DelegateBlackboxes(fn) == fn \in {"bb"}
DelegateSkips(fn, position) == fn = "r" /\ position = 23
\* Argument values the program passes as x.
ArgValues == {3, 10}

\* ------------------------------------------------------------------------
\* BreakIterator.  The iterator walks the source position table of the debug
\* bytecode and stops at every entry whose type is not NOT_DEBUG_BREAK; the
\* sequence of these stops is the function's break locations, break_index
\* being the 0-based index into it.
\* ------------------------------------------------------------------------
GetDebugBreakType(orig, entry) ==
  LET first == ByteAt(orig, entry.code_offset)
      bytecode == IF IsPrefixScalingBytecode(first)
                  THEN ByteAt(orig, entry.code_offset + 1) ELSE first
  IN  IF bytecode = "Debugger" THEN "DEBUGGER_STATEMENT"
      ELSE IF bytecode = "Return" THEN "DEBUG_BREAK_SLOT_AT_RETURN"
      ELSE IF bytecode = "SuspendGenerator" THEN "DEBUG_BREAK_SLOT_AT_SUSPEND"
      ELSE IF IsCallOrConstruct(bytecode) THEN "DEBUG_BREAK_SLOT_AT_CALL"
      ELSE IF entry.is_statement THEN "DEBUG_BREAK_SLOT"
      ELSE "NOT_DEBUG_BREAK"

RECURSIVE IteratorNext(_, _, _, _, _)
IteratorNext(orig, spt, i, statement_position, acc) ==
  IF i > Len(spt) THEN acc
  ELSE LET entry == spt[i]
           stmt == IF entry.is_statement THEN entry.source_position
                   ELSE statement_position
           type == GetDebugBreakType(orig, entry)
       IN  IF type = "NOT_DEBUG_BREAK"
           THEN IteratorNext(orig, spt, i + 1, stmt, acc)
           ELSE IteratorNext(orig, spt, i + 1, stmt,
                  Append(acc, [code_offset |-> entry.code_offset,
                               position |-> entry.source_position,
                               statement_position |-> stmt,
                               type |-> type]))

\* All stops of BreakIterator(debug_info), in iteration order.
BreakIterator(orig, spt, start_position) ==
  IteratorNext(orig, spt, 1, start_position, << >>)

BreakLocationsOf(fn) ==
  BreakIterator(OriginalBytecode[fn], SourcePositionTable[fn],
                StartPosition[fn])

\* The scan for an exact match ending at the last match, not the first.
ExactMatchLast(locs, i, source_position, first_break) ==
  LET exact == {j \in i..(Len(locs) - 1) :
                  source_position = locs[j + 1].position}
  IN  IF exact = {} THEN first_break
      ELSE CHOOSE j \in exact : \A k \in exact : k <= j

RECURSIVE ExactMatchFrom(_, _, _, _)
ExactMatchFrom(locs, i, source_position, first_break) ==
  IF i >= Len(locs) THEN first_break
  ELSE IF source_position = locs[i + 1].position THEN i
  ELSE ExactMatchFrom(locs, i + 1, source_position, first_break)

RECURSIVE BreakIndexFromPositionAt(_, _, _)
BreakIndexFromPositionAt(locs, i, source_position) ==
  IF i >= Len(locs) THEN Len(locs) - 1
  ELSE IF source_position <= locs[i + 1].position
       THEN ExactMatchFrom(locs, i, source_position, i)
  ELSE BreakIndexFromPositionAt(locs, i + 1, source_position)

\* BreakIndexFromPosition without the scan for an exact match.
BreakIndexFromPositionFirstOnly(locs, source_position) ==
  LET later == {i \in 0..(Len(locs) - 1) :
                  source_position <= locs[i + 1].position}
  IN  IF later = {} THEN Len(locs) - 1
      ELSE CHOOSE i \in later : \A j \in later : i <= j

BreakIndexFromPosition(locs, source_position) ==
  BreakIndexFromPositionAt(locs, 0, source_position)

\* SkipTo(count): count times Next(), which stays at the last location
\* once the table is exhausted.
SkipTo(locs, count) == IF count < Len(locs) THEN count ELSE Len(locs) - 1

SkipToPosition(locs, position) ==
  SkipTo(locs, BreakIndexFromPosition(locs, position))

RECURSIVE ClosestBreakFrom(_, _, _, _, _)
ClosestBreakFrom(locs, i, offset, closest_break, distance) ==
  IF i >= Len(locs) THEN closest_break
  ELSE LET co == locs[i + 1].code_offset
       IN  IF co <= offset /\ offset - co < distance
           THEN IF offset - co = 0 THEN i
                ELSE ClosestBreakFrom(locs, i + 1, offset, i, offset - co)
           ELSE ClosestBreakFrom(locs, i + 1, offset, closest_break, distance)

kMaxInt == 2147483647

\* BreakIndexFromCodeOffset stopping at the first location not after offset.
BreakIndexFromCodeOffsetFirst(locs, offset) ==
  LET before == {i \in 0..(Len(locs) - 1) : locs[i + 1].code_offset <= offset}
  IN  IF before = {} THEN 0
      ELSE CHOOSE i \in before : \A j \in before : i <= j

BreakIndexFromCodeOffset(locs, offset) ==
  ClosestBreakFrom(locs, 0, offset, 0, kMaxInt)

IsReturn(loc) == loc.type = "DEBUG_BREAK_SLOT_AT_RETURN"
IsSuspend(loc) == loc.type = "DEBUG_BREAK_SLOT_AT_SUSPEND"
IsReturnOrSuspend(loc) == IsReturn(loc) \/ IsSuspend(loc)
IsDebugBreakAtEntry(loc) == loc.type = "DEBUG_BREAK_AT_ENTRY"

\* BreakIterator::SetDebugBreak / ClearDebugBreak at break location `loc`
\* of a function whose original bytecode is `orig`.
\* SetDebugBreak taking a debug break that is already there out again.
SetDebugBreakToggling(orig, debug, loc) ==
  IF loc.type = "DEBUGGER_STATEMENT" THEN debug
  ELSE IF IsDebugBreak(ByteAt(debug, loc.code_offset))
       THEN SetByte(debug, loc.code_offset, ByteAt(orig, loc.code_offset))
       ELSE ApplyDebugBreak(debug, loc.code_offset)

SetDebugBreak(orig, debug, loc) ==
  IF loc.type = "DEBUGGER_STATEMENT" THEN debug
  ELSE ApplyDebugBreak(debug, loc.code_offset)

\* ClearDebugBreak restoring the bytecode read past a scaling prefix.
ClearDebugBreakPastPrefix(orig, debug, loc) ==
  IF loc.type = "DEBUGGER_STATEMENT" THEN debug
  ELSE SetByte(debug, loc.code_offset,
               IF IsPrefixScalingBytecode(ByteAt(orig, loc.code_offset))
               THEN ByteAt(orig, loc.code_offset + 1)
               ELSE ByteAt(orig, loc.code_offset))

ClearDebugBreak(orig, debug, loc) ==
  IF loc.type = "DEBUGGER_STATEMENT" THEN debug
  ELSE SetByte(debug, loc.code_offset, ByteAt(orig, loc.code_offset))

\* ------------------------------------------------------------------------
\* Debugger state.  The operators below take the debugger state as a record
\* w and return the state after the modelled function has run:
\*   w.tl      thread_local_                w.hook   hook_on_function_call_
\*   w.list    debug_info_list_ (head first)
\*   w.infos   the DebugInfo of every function (exists = HasDebugInfo)
\*   w.bps     the BreakPoint objects created so far (id -> condition)
\*   w.scopes  the chain of DebugScopes (innermost last)
\*   w.evals   ids of the conditions evaluated by the running handler
\*   w.notify  the OnDebugBreak calls made by the running handler
\* ------------------------------------------------------------------------
NoDebugInfo ==
  [exists |-> FALSE, has_break_info |-> FALSE, has_coverage_info |-> FALSE,
   prepared |-> FALSE, can_break_at_entry |-> FALSE, break_at_entry |-> FALSE,
   computed_debug_is_blackboxed |-> FALSE, debug_is_blackboxed |-> FALSE,
   debugging_id |-> 0, side_effect_state |-> "kNotComputed",
   break_points |-> << >>, instrumented |-> FALSE, debug_bytecode |-> << >>,
   debug_execution_mode |-> "kBreakpoints"]

\* Debug::ThreadInit.
ThreadInit ==
  [break_frame_id_ |-> NO_ID,
   last_step_action_ |-> StepNone,
   last_statement_position_ |-> kNoSourcePosition,
   last_frame_count_ |-> -1,
   fast_forward_to_return_ |-> FALSE,
   ignore_step_into_function_ |-> NoFunction,
   target_frame_count_ |-> -1,
   last_breakpoint_id_ |-> 0,
   suspended_generator_ |-> NoGenerator,
   break_on_next_function_call_ |-> FALSE]

\* The debugger hints of a DebugInfo: the blackbox answer, the side effect
\* state and the debugging id (0 is kNoDebuggingId).
HasDebuggerHints(info) ==
  \/ info.computed_debug_is_blackboxed \/ info.debug_is_blackboxed
  \/ info.side_effect_state # "kNotComputed"
  \/ info.debugging_id # 0

\* DebugInfo::IsEmpty: no flag and no debugger hint.
IsEmpty(info) ==
  /\ ~info.has_break_info /\ ~info.has_coverage_info /\ ~info.prepared
  /\ ~info.can_break_at_entry /\ ~info.break_at_entry
  /\ info.debug_execution_mode = "kBreakpoints"
  /\ ~HasDebuggerHints(info)

\* SharedFunctionInfo::HasBreakInfo.
HasBreakInfo(w, fn) == w.infos[fn].exists /\ w.infos[fn].has_break_info

in_debug_scope(w) == Len(w.scopes) > 0
ignore_events(w) == w.is_suppressed \/ ~w.is_active
last_step_action(w) == w.tl.last_step_action_
has_suspended_generator(w) == w.tl.suspended_generator_ # NoGenerator

\* Debug::UpdateHookOnFunctionCall.
UpdateHookOnFunctionCall(w) ==
  [w EXCEPT !.hook = w.tl.last_step_action_ = StepInto
                     \/ w.debug_execution_mode = "kSideEffects"
                     \/ w.tl.break_on_next_function_call_]

\* Debug::GetOrCreateDebugInfo: a new record goes to the head of the list.
GetOrCreateDebugInfo(w, fn) ==
  IF w.infos[fn].exists THEN w
  ELSE [w EXCEPT !.infos[fn] = [NoDebugInfo EXCEPT !.exists = TRUE],
                 !.list = <<fn>> \o w.list]

\* Debug::CanBreakAtEntry.
CanBreakAtEntry(fn) == IsNativeOrApi(fn)

\* Debug::CreateBreakInfo.
CreateBreakInfo(w, fn) ==
  LET w1 == GetOrCreateDebugInfo(w, fn)
  IN  [w1 EXCEPT !.infos[fn].has_break_info = TRUE,
                 !.infos[fn].can_break_at_entry = CanBreakAtEntry(fn),
                 !.infos[fn].break_points = << >>]

\* Debug::EnsureBreakInfo: the state it leaves, and its result.
\* is_compiled() and Compiler::Compile of a function not compiled yet.
IsCompiled(fn) == fn # "lazy"
CompileFails(fn) == fn = "lazy"
EnsureBreakInfoOk(w, fn) ==
  \/ HasBreakInfo(w, fn)
  \/ /\ (IsSubjectToDebugging(fn) \/ CanBreakAtEntry(fn))
     /\ (IsCompiled(fn) \/ ~CompileFails(fn))
\* Compiler::Compile(shared, CLEAR_EXCEPTION) of a function not compiled
\* yet: the exception of a failed compilation is cleared.
CompileKeepingException(w, fn) ==
  IF CompileFails(fn) THEN [w EXCEPT !.pending = TRUE] ELSE w
Compile(w, fn) ==
  IF CompileFails(fn) THEN [w EXCEPT !.pending = FALSE] ELSE w
EnsureBreakInfo(w, fn) ==
  IF HasBreakInfo(w, fn) THEN w
  ELSE IF ~IsSubjectToDebugging(fn) /\ ~CanBreakAtEntry(fn) THEN w
  ELSE IF ~IsCompiled(fn) /\ CompileFails(fn) THEN Compile(w, fn)
  ELSE CreateBreakInfo(w, fn)

\* PrepareFunctionForDebugExecution without the test of the flag: the debug
\* bytecode is installed again on every call.
PrepareFunctionForDebugExecutionAgain(w, fn) ==
  [GetOrCreateDebugInfo(w, fn)
     EXCEPT !.infos[fn].prepared = TRUE,
            !.infos[fn].instrumented = TRUE,
            !.infos[fn].debug_bytecode = OriginalBytecode[fn]]

\* Debug::PrepareFunctionForDebugExecution (InstallDebugBytecode makes the
\* debug copy of the original bytecode).
PrepareFunctionForDebugExecution(w, fn) ==
  LET w1 == GetOrCreateDebugInfo(w, fn)
  IN  IF w1.infos[fn].prepared THEN w1
      ELSE [w1 EXCEPT !.infos[fn].prepared = TRUE,
                      !.infos[fn].instrumented = TRUE,
                      !.infos[fn].debug_bytecode = OriginalBytecode[fn]]

\* Debug::IsBlackboxed: the state it leaves (the hint is cached in the
\* DebugInfo), and its result.
IsBlackboxedState(w, fn) ==
  IF ~w.debug_delegate THEN w
  ELSE LET w1 == GetOrCreateDebugInfo(w, fn)
       IN  IF w1.infos[fn].computed_debug_is_blackboxed THEN w1
           ELSE [w1 EXCEPT
                  !.infos[fn].debug_is_blackboxed =
                      (~IsSubjectToDebugging(fn)) \/ DelegateBlackboxes(fn),
                  !.infos[fn].computed_debug_is_blackboxed = TRUE]
IsBlackboxed(w, fn) ==
  IF ~w.debug_delegate THEN ~IsSubjectToDebugging(fn)
  ELSE IsBlackboxedState(w, fn).infos[fn].debug_is_blackboxed

\* The break locations of a function with break info.
FromEntry == <<[code_offset |-> 0, position |-> kBreakAtEntryPosition,
                statement_position |-> kBreakAtEntryPosition,
                type |-> "DEBUG_BREAK_AT_ENTRY"]>>
Locations(fn) == BreakLocationsOf(fn)

RECURSIVE FloodFrom(_, _, _, _, _)
FloodFrom(orig, debug, locs, i, returns_only) ==
  IF i > Len(locs) THEN debug
  ELSE IF returns_only /\ ~IsReturnOrSuspend(locs[i])
       THEN FloodFrom(orig, debug, locs, i + 1, returns_only)
  ELSE FloodFrom(orig, SetDebugBreak(orig, debug, locs[i]), locs, i + 1,
                 returns_only)

\* FloodWithOneShot flooding every break location whatever returns_only says.
FloodWithOneShotEverywhere(w, fn, returns_only) ==
  LET w1 == IsBlackboxedState(w, fn)
  IN  IF IsBlackboxed(w, fn) THEN w1
      ELSE IF ~EnsureBreakInfoOk(w1, fn) THEN w1
      ELSE LET w2 == PrepareFunctionForDebugExecution(
                       EnsureBreakInfo(w1, fn), fn)
           IN  [w2 EXCEPT !.infos[fn].debug_bytecode =
                  FloodFrom(OriginalBytecode[fn], @, Locations(fn), 1,
                            FALSE)]

\* Debug::FloodWithOneShot.
FloodWithOneShot(w, fn, returns_only) ==
  LET w1 == IsBlackboxedState(w, fn)
  IN  IF IsBlackboxed(w, fn) THEN w1
      ELSE IF ~EnsureBreakInfoOk(w1, fn) THEN w1
      ELSE LET w2 == PrepareFunctionForDebugExecution(
                       EnsureBreakInfo(w1, fn), fn)
           IN  [w2 EXCEPT !.infos[fn].debug_bytecode =
                  FloodFrom(OriginalBytecode[fn], @, Locations(fn), 1,
                            returns_only)]

RECURSIVE ApplyFrom(_, _, _, _, _)
ApplyFrom(orig, debug, locs, break_points, i) ==
  IF i > Len(break_points) THEN debug
  ELSE IF Len(break_points[i].break_points) = 0
       THEN ApplyFrom(orig, debug, locs, break_points, i + 1)
  ELSE ApplyFrom(orig,
         SetDebugBreak(orig, debug,
           locs[SkipToPosition(locs, break_points[i].source_position) + 1]),
         locs, break_points, i + 1)

\* ApplyBreakPoints setting the execution mode without patching a location.
ApplyBreakPointsModeOnly(w, fn) ==
  LET info == w.infos[fn]
  IN  IF info.can_break_at_entry
      THEN [w EXCEPT !.infos[fn].break_at_entry = TRUE,
                     !.infos[fn].debug_execution_mode = "kBreakpoints"]
      ELSE IF ~info.instrumented THEN w
      ELSE [w EXCEPT !.infos[fn].debug_execution_mode = "kBreakpoints"]

\* Debug::ApplyBreakPoints.
ApplyBreakPoints(w, fn) ==
  LET info == w.infos[fn]
  IN  IF info.can_break_at_entry
      THEN [w EXCEPT !.infos[fn].break_at_entry = TRUE,
                     !.infos[fn].debug_execution_mode = "kBreakpoints"]
      ELSE IF ~info.instrumented THEN w
      ELSE [w EXCEPT !.infos[fn].debug_bytecode =
                        ApplyFrom(OriginalBytecode[fn], @, Locations(fn),
                                  info.break_points, 1),
                     !.infos[fn].debug_execution_mode = "kBreakpoints"]

RECURSIVE ClearFrom(_, _, _, _)
ClearFrom(orig, debug, locs, i) ==
  IF i > Len(locs) THEN debug
  ELSE ClearFrom(orig, ClearDebugBreak(orig, debug, locs[i]), locs, i + 1)

\* Debug::ClearBreakPoints.
ClearBreakPoints(w, fn) ==
  LET info == w.infos[fn]
  IN  IF info.can_break_at_entry
      THEN [w EXCEPT !.infos[fn].break_at_entry = FALSE]
      ELSE IF ~info.instrumented \/ ~info.has_break_info THEN w
      ELSE [w EXCEPT !.infos[fn].debug_bytecode =
                        ClearFrom(OriginalBytecode[fn], @, Locations(fn), 1)]

RECURSIVE ClearOneShotFrom(_, _)
ClearOneShotFrom(w, i) ==
  IF i > Len(w.list) THEN w
  ELSE ClearOneShotFrom(
         ApplyBreakPoints(ClearBreakPoints(w, w.list[i]), w.list[i]), i + 1)

\* ClearOneShot stopping after the first node of the list.
ClearOneShotHeadOnly(w) ==
  IF Len(w.list) = 0 THEN w
  ELSE ApplyBreakPoints(ClearBreakPoints(w, w.list[1]), w.list[1])

\* Debug::ClearOneShot.
ClearOneShot(w) == ClearOneShotFrom(w, 1)

\* Debug::ClearStepping.
ClearStepping(w) ==
  LET w1 == ClearOneShot(w)
  IN  UpdateHookOnFunctionCall(
        [w1 EXCEPT !.tl.last_step_action_ = StepNone,
                   !.tl.last_statement_position_ = kNoSourcePosition,
                   !.tl.ignore_step_into_function_ = NoFunction,
                   !.tl.fast_forward_to_return_ = FALSE,
                   !.tl.last_frame_count_ = -1,
                   !.tl.target_frame_count_ = -1,
                   !.tl.break_on_next_function_call_ = FALSE])

\* ------------------------------------------------------------------------
\* Break points of a DebugInfo (DebugInfo / BreakPointInfo objects).
\* break_points is the array of BreakPointInfo, each with its source
\* position and the ids of its BreakPoint objects.
\* ------------------------------------------------------------------------
RECURSIVE IndexOfPosition(_, _, _)
IndexOfPosition(break_points, source_position, i) ==
  IF i > Len(break_points) THEN 0
  ELSE IF break_points[i].source_position = source_position THEN i
  ELSE IndexOfPosition(break_points, source_position, i + 1)

InSeq(x, seq) == \E j \in 1..Len(seq) : seq[j] = x
RemoveFromSeq(x, seq) == SelectSeq(seq, LAMBDA y : y # x)

\* DebugInfo::SetBreakPoint.
DebugInfoSetBreakPoint(info, source_position, id) ==
  LET i == IndexOfPosition(info.break_points, source_position, 1)
  IN  IF i = 0
      THEN [info EXCEPT !.break_points =
              Append(@, [source_position |-> source_position,
                         break_points |-> <<id>>])]
      ELSE IF InSeq(id, info.break_points[i].break_points) THEN info
      ELSE [info EXCEPT !.break_points[i].break_points = Append(@, id)]

\* DebugInfo::FindBreakPointInfo: index of the info holding id, 0 if none.
RECURSIVE FindBreakPointInfo(_, _, _)
FindBreakPointInfo(break_points, id, i) ==
  IF i > Len(break_points) THEN 0
  ELSE IF InSeq(id, break_points[i].break_points) THEN i
  ELSE FindBreakPointInfo(break_points, id, i + 1)

\* DebugInfo::ClearBreakPoint.
DebugInfoClearBreakPoint(info, id) ==
  LET i == FindBreakPointInfo(info.break_points, id, 1)
  IN  IF i = 0 THEN info
      ELSE [info EXCEPT !.break_points[i].break_points = RemoveFromSeq(id, @)]

RECURSIVE CountFrom(_, _)
CountFrom(break_points, i) ==
  IF i > Len(break_points) THEN 0
  ELSE Len(break_points[i].break_points) + CountFrom(break_points, i + 1)

\* DebugInfo::GetBreakPointCount.
GetBreakPointCount(info) == CountFrom(info.break_points, 1)

\* DebugInfo::GetBreakPoints(position).
GetBreakPoints(info, position) ==
  LET i == IndexOfPosition(info.break_points, position, 1)
  IN  IF i = 0 THEN << >> ELSE info.break_points[i].break_points

\* DebugInfo::HasBreakPoint(position).
DebugInfoHasBreakPoint(info, position) ==
  Len(GetBreakPoints(info, position)) > 0

\* DebugInfo::ClearBreakInfo.
ClearBreakInfo(info) ==
  [info EXCEPT !.instrumented = FALSE, !.debug_bytecode = << >>,
               !.break_points = << >>, !.has_break_info = FALSE,
               !.prepared = FALSE, !.break_at_entry = FALSE,
               !.can_break_at_entry = FALSE,
               !.debug_execution_mode = "kBreakpoints"]

\* ------------------------------------------------------------------------
\* Break locations of frames.
\* ------------------------------------------------------------------------
\* BreakLocation::FromFrame.
FromFrame(w, frame) ==
  IF w.infos[frame.fn].can_break_at_entry THEN FromEntry[1]
  ELSE Locations(frame.fn)
         [BreakIndexFromCodeOffset(Locations(frame.fn), frame.pc) + 1]

\* BreakLocation::HasBreakPoint.
LocationHasBreakPoint(w, fn, loc) ==
  LET info == w.infos[fn]
  IN  IF ~DebugInfoHasBreakPoint(info, loc.position) THEN FALSE
      ELSE IF info.can_break_at_entry THEN info.break_at_entry
      ELSE Locations(fn)[SkipToPosition(Locations(fn), loc.position) + 1]
               .code_offset = loc.code_offset

\* BreakLocation::generator_suspend_id.
generator_suspend_id(fn, loc) ==
  IF IsSuspend(loc) THEN SuspendId[fn][loc.code_offset] ELSE -1

\* BytecodeArray::SourcePosition(offset): position of the last table entry
\* at or before offset.
RECURSIVE SourcePositionFrom(_, _, _, _)
SourcePositionFrom(spt, offset, i, position) ==
  IF i > Len(spt) \/ spt[i].code_offset > offset THEN position
  ELSE SourcePositionFrom(spt, offset, i + 1, spt[i].source_position)
SourcePosition(fn, offset) ==
  SourcePositionFrom(SourcePositionTable[fn], offset, 1, 0)

\* BytecodeArray::SourceStatementPosition(offset): the greatest statement
\* position not after SourcePosition(offset).
RECURSIVE StatementPositionFrom(_, _, _, _)
StatementPositionFrom(spt, position, i, statement_position) ==
  IF i > Len(spt) THEN statement_position
  ELSE IF spt[i].is_statement /\ statement_position < spt[i].source_position
          /\ spt[i].source_position <= position
       THEN StatementPositionFrom(spt, position, i + 1,
                                  spt[i].source_position)
  ELSE StatementPositionFrom(spt, position, i + 1, statement_position)
SourceStatementPosition(fn, offset) ==
  StatementPositionFrom(SourcePositionTable[fn], SourcePosition(fn, offset),
                        1, 0)

\* ------------------------------------------------------------------------
\* Conditional break points.
\* ------------------------------------------------------------------------
Conditions == {"", "x > 5", "false", "throw"}

\* DebugEvaluate::Local / WithTopmostArguments on the paused frame.
EvaluateFails(condition, frame) == condition = "throw"
EvaluateValue(condition, frame) ==
  IF condition = "x > 5" THEN frame.x > 5 ELSE FALSE

\* CheckBreakPoint that never looks at the condition.
CheckBreakPointIgnoringCondition(w, id, frame) == TRUE

\* CheckBreakPoint that takes a failed evaluation for a hit.
CheckBreakPointThrowIsTrue(w, id, frame) ==
  IF w.bps[id] = "" THEN TRUE
  ELSE IF EvaluateFails(w.bps[id], frame) THEN TRUE
  ELSE EvaluateValue(w.bps[id], frame)

\* Debug::CheckBreakPoint: the state it leaves, and its result.
CheckBreakPointState(w, id, frame) ==
  IF w.bps[id] = "" THEN w
  ELSE LET w1 == [w EXCEPT !.evals = Append(@, id),
                           !.pending = EvaluateFails(w.bps[id], frame)]
       IN  IF EvaluateFails(w.bps[id], frame)
           THEN [w1 EXCEPT !.pending = FALSE]
           ELSE w1
CheckBreakPoint(w, id, frame) ==
  IF w.bps[id] = "" THEN TRUE
  ELSE IF EvaluateFails(w.bps[id], frame) THEN FALSE
  ELSE EvaluateValue(w.bps[id], frame)

\* Debug::GetHitBreakPoints: r.w is the state it leaves, r.hit the break
\* points that evaluated true (empty for the null handle).
RECURSIVE GetHitFrom(_, _, _, _, _)
GetHitFrom(w, ids, i, frame, hit) ==
  IF i > Len(ids) THEN [w |-> w, hit |-> hit]
  ELSE GetHitFrom(CheckBreakPointState(w, ids[i], frame), ids, i + 1, frame,
                  IF CheckBreakPoint(w, ids[i], frame)
                  THEN Append(hit, ids[i]) ELSE hit)
GetHitBreakPoints(w, fn, position, frame) ==
  GetHitFrom(w, GetBreakPoints(w.infos[fn], position), 1, frame, << >>)

\* Debug::CheckBreakPoints.
CheckBreakPoints(w, fn, loc, frame) ==
  IF w.break_points_active /\ LocationHasBreakPoint(w, fn, loc)
  THEN GetHitBreakPoints(w, fn, loc.position, frame)
  ELSE [w |-> w, hit |-> << >>]

\* ------------------------------------------------------------------------
\* Stepping.  `stack` is the JavaScript stack, bottom frame first; the id of
\* a frame is its index.  A frame of optimized code holds, below the function
\* it runs (fn), the functions that function was inlined into (inlined,
\* outermost first): one logical frame each.
\* ------------------------------------------------------------------------
\* JavaScriptFrame::GetFunctions: outermost function first.
GetFunctions(frame) == frame.inlined \o <<frame.fn>>

FrameFunctionCount(frame) == Len(GetFunctions(frame))

RECURSIVE CountFrames(_, _)
CountFrames(stack, i) ==
  IF i < 1 THEN 0 ELSE FrameFunctionCount(stack[i]) + CountFrames(stack, i - 1)

\* Debug::CurrentFrameCount.
CurrentFrameCount(w, stack) ==
  IF w.tl.break_frame_id_ # NO_ID
  THEN CountFrames(stack, w.tl.break_frame_id_)
  ELSE CountFrames(stack, Len(stack))

\* The stack walk of PrepareStep for StepOut: skip the current frame, flood
\* the first caller that is not blackboxed and make it the target.
\* The walk taking every frame for the frame of one function.
RECURSIVE StepOutWalkByPhysicalFrame(_, _, _, _, _)
StepOutWalkByPhysicalFrame(w, stack, i, current_frame_count, in_current_frame) ==
  IF i < 1 THEN w
  ELSE IF in_current_frame
       THEN StepOutWalkByPhysicalFrame(w, stack, i - 1,
                                       current_frame_count - 1, FALSE)
  ELSE IF IsBlackboxed(w, stack[i].fn)
       THEN StepOutWalkByPhysicalFrame(IsBlackboxedState(w, stack[i].fn),
                                       stack, i - 1, current_frame_count - 1,
                                       FALSE)
  ELSE [FloodWithOneShot(w, stack[i].fn, FALSE)
          EXCEPT !.tl.target_frame_count_ = current_frame_count]

RECURSIVE StepOutWalk(_, _, _, _, _)
\* The inner loop, over the functions of frame i still to visit (infos),
\* innermost first; the walk goes on with the next frame when they run out.
RECURSIVE StepOutFunctions(_, _, _, _, _, _)
StepOutFunctions(w, stack, i, infos, current_frame_count, in_current_frame) ==
  IF infos = << >>
  THEN StepOutWalk(w, stack, i - 1, current_frame_count, in_current_frame)
  ELSE IF in_current_frame
       THEN StepOutFunctions(w, stack, i, SubSeq(infos, 1, Len(infos) - 1),
                             current_frame_count - 1, FALSE)
  ELSE IF IsBlackboxed(w, infos[Len(infos)])
       THEN StepOutFunctions(IsBlackboxedState(w, infos[Len(infos)]), stack,
                             i, SubSeq(infos, 1, Len(infos) - 1),
                             current_frame_count - 1, FALSE)
  ELSE [FloodWithOneShot(w, infos[Len(infos)], FALSE)
          EXCEPT !.tl.target_frame_count_ = current_frame_count]

StepOutWalk(w, stack, i, current_frame_count, in_current_frame) ==
  IF i < 1 THEN w
  ELSE StepOutFunctions(w, stack, i, GetFunctions(stack[i]),
                        current_frame_count, in_current_frame)

\* PrepareStepAt treating the initial suspend of a generator as ordinary code
\* and every other suspend as an exit.
PrepareStepAtExemptingInitialSuspend(w0, stack, requested, frame, fn, location) ==
  LET current_frame_count == CurrentFrameCount(w0, stack)
      at_exit ==
        \/ IsReturn(location)
        \/ /\ IsSuspend(location)
           /\ \/ requested = StepOut
              \/ ~(/\ IsGeneratorFunction(fn)
                   /\ generator_suspend_id(fn, location) = 0)
      w1 == IF at_exit
            THEN [w0 EXCEPT
                   !.tl.ignore_step_into_function_ =
                       IF last_step_action(w0) = StepOut THEN fn ELSE @,
                   !.tl.last_step_action_ = StepInto]
            ELSE w0
      action1 == IF at_exit THEN StepOut ELSE requested
      w2 == UpdateHookOnFunctionCall(w1)
      w3 == IF action1 = StepOver THEN IsBlackboxedState(w2, fn) ELSE w2
      step_action == IF action1 = StepOver /\ IsBlackboxed(w2, fn)
                     THEN StepOut ELSE action1
      w4 == [w3 EXCEPT
              !.tl.last_statement_position_ =
                  SourceStatementPosition(fn, frame.pc),
              !.tl.last_frame_count_ = current_frame_count,
              !.tl.suspended_generator_ = NoGenerator]
  IN  CASE step_action = StepOut ->
             LET w5 == [w4 EXCEPT
                         !.tl.last_statement_position_ = kNoSourcePosition,
                         !.tl.last_frame_count_ = -1]
                 w6 == IF ~IsReturnOrSuspend(location)
                       THEN IsBlackboxedState(w5, fn) ELSE w5
             IN  IF ~IsReturnOrSuspend(location) /\ ~IsBlackboxed(w5, fn)
                 THEN FloodWithOneShot(
                        [w6 EXCEPT
                          !.tl.target_frame_count_ = current_frame_count,
                          !.tl.fast_forward_to_return_ = TRUE],
                        fn, TRUE)
                 ELSE StepOutWalk(w6, stack, w6.tl.break_frame_id_,
                                  current_frame_count, TRUE)
        [] step_action = StepOver ->
             FloodWithOneShot(
               [w4 EXCEPT !.tl.target_frame_count_ = current_frame_count],
               fn, FALSE)
        [] step_action = StepInto -> FloodWithOneShot(w4, fn, FALSE)

\* PrepareStep keeping a StepOver in a blackboxed function a StepOver.
PrepareStepAtSteppingOverBlackboxed(w0, stack, requested, frame, fn, location) ==
  LET current_frame_count == CurrentFrameCount(w0, stack)
      at_exit ==
        \/ IsReturn(location)
        \/ /\ IsSuspend(location)
           /\ \/ requested = StepOut
              \/ /\ IsGeneratorFunction(fn)
                 /\ generator_suspend_id(fn, location) = 0
      w1 == IF at_exit
            THEN [w0 EXCEPT
                   !.tl.ignore_step_into_function_ =
                       IF last_step_action(w0) = StepOut THEN fn ELSE @,
                   !.tl.last_step_action_ = StepInto]
            ELSE w0
      action1 == IF at_exit THEN StepOut ELSE requested
      w2 == UpdateHookOnFunctionCall(w1)
      w3 == IF action1 = StepOver THEN IsBlackboxedState(w2, fn) ELSE w2
      step_action == action1
      w4 == [w3 EXCEPT
              !.tl.last_statement_position_ =
                  SourceStatementPosition(fn, frame.pc),
              !.tl.last_frame_count_ = current_frame_count,
              !.tl.suspended_generator_ = NoGenerator]
  IN  CASE step_action = StepOut ->
             LET w5 == [w4 EXCEPT
                         !.tl.last_statement_position_ = kNoSourcePosition,
                         !.tl.last_frame_count_ = -1]
                 w6 == IF ~IsReturnOrSuspend(location)
                       THEN IsBlackboxedState(w5, fn) ELSE w5
             IN  IF ~IsReturnOrSuspend(location) /\ ~IsBlackboxed(w5, fn)
                 THEN FloodWithOneShot(
                        [w6 EXCEPT
                          !.tl.target_frame_count_ = current_frame_count,
                          !.tl.fast_forward_to_return_ = TRUE],
                        fn, TRUE)
                 ELSE StepOutWalk(w6, stack, w6.tl.break_frame_id_,
                                  current_frame_count, TRUE)
        [] step_action = StepOver ->
             FloodWithOneShot(
               [w4 EXCEPT !.tl.target_frame_count_ = current_frame_count],
               fn, FALSE)
        [] step_action = StepInto -> FloodWithOneShot(w4, fn, FALSE)

\* Debug::PrepareStep, from the point where the break location is known.
PrepareStepAt(w0, stack, requested, frame, fn, location) ==
  LET current_frame_count == CurrentFrameCount(w0, stack)
      at_exit ==
        \/ IsReturn(location)
        \/ /\ IsSuspend(location)
           /\ \/ requested = StepOut
              \/ /\ IsGeneratorFunction(fn)
                 /\ generator_suspend_id(fn, location) = 0
      w1 == IF at_exit
            THEN [w0 EXCEPT
                   !.tl.ignore_step_into_function_ =
                       IF last_step_action(w0) = StepOut THEN fn ELSE @,
                   !.tl.last_step_action_ = StepInto]
            ELSE w0
      action1 == IF at_exit THEN StepOut ELSE requested
      w2 == UpdateHookOnFunctionCall(w1)
      w3 == IF action1 = StepOver THEN IsBlackboxedState(w2, fn) ELSE w2
      step_action == IF action1 = StepOver /\ IsBlackboxed(w2, fn)
                     THEN StepOut ELSE action1
      w4 == [w3 EXCEPT
              !.tl.last_statement_position_ =
                  SourceStatementPosition(fn, frame.pc),
              !.tl.last_frame_count_ = current_frame_count,
              !.tl.suspended_generator_ = NoGenerator]
  IN  CASE step_action = StepOut ->
             LET w5 == [w4 EXCEPT
                         !.tl.last_statement_position_ = kNoSourcePosition,
                         !.tl.last_frame_count_ = -1]
                 w6 == IF ~IsReturnOrSuspend(location)
                       THEN IsBlackboxedState(w5, fn) ELSE w5
             IN  IF ~IsReturnOrSuspend(location) /\ ~IsBlackboxed(w5, fn)
                 THEN FloodWithOneShot(
                        [w6 EXCEPT
                          !.tl.target_frame_count_ = current_frame_count,
                          !.tl.fast_forward_to_return_ = TRUE],
                        fn, TRUE)
                 ELSE StepOutWalk(w6, stack, w6.tl.break_frame_id_,
                                  current_frame_count, TRUE)
        [] step_action = StepOver ->
             FloodWithOneShot(
               [w4 EXCEPT !.tl.target_frame_count_ = current_frame_count],
               fn, FALSE)
        [] step_action = StepInto -> FloodWithOneShot(w4, fn, FALSE)

\* PrepareStep recording the step action before it looks for a stack.
PrepareStepRecordingFirst(w, stack, step_action) ==
  IF w.tl.break_frame_id_ = NO_ID
  THEN [w EXCEPT !.tl.last_step_action_ = step_action]
  ELSE LET w1 == [w EXCEPT !.tl.last_step_action_ = step_action]
           frame == stack[w.tl.break_frame_id_]
           fn == frame.fn
       IN  IF ~EnsureBreakInfoOk(w1, fn) THEN w1
           ELSE LET w2 == PrepareFunctionForDebugExecution(
                            EnsureBreakInfo(w1, fn), fn)
                IN  PrepareStepAt(w2, stack, step_action, frame, fn,
                                  FromFrame(w2, frame))

\* Debug::PrepareStep.
PrepareStep(w, stack, step_action) ==
  IF w.tl.break_frame_id_ = NO_ID THEN w
  ELSE LET w1 == [w EXCEPT !.tl.last_step_action_ = step_action]
           frame == stack[w.tl.break_frame_id_]
           fn == frame.fn
       IN  IF ~EnsureBreakInfoOk(w1, fn) THEN w1
           ELSE LET w2 == PrepareFunctionForDebugExecution(
                            EnsureBreakInfo(w1, fn), fn)
                IN  PrepareStepAt(w2, stack, step_action, frame, fn,
                                  FromFrame(w2, frame))

\* Debug::ShouldBeSkipped: the delegate is asked about the top frame.
ShouldBeSkipped(stack) ==
  LET top == stack[Len(stack)]
  IN  DelegateSkips(top.fn, SourcePosition(top.fn, top.pc))

\* Debug::OnDebugBreak.  The call is recorded in w.notify; delivered tells
\* whether BreakProgramRequested reached the delegate.
OnDebugBreak(w0, stack, break_points_hit, lastStepAction) ==
  LET called(d) == Append(w0.notify, [hit |-> break_points_hit,
                                      delivered |-> d])
  IN  IF ignore_events(w0) \/ ~w0.debug_delegate
      THEN [w0 EXCEPT !.notify = called(FALSE)]
      ELSE IF lastStepAction \in {StepOver, StepInto} /\ ShouldBeSkipped(stack)
      THEN PrepareStep([w0 EXCEPT !.notify = called(FALSE)], stack,
                       lastStepAction)
      ELSE [w0 EXCEPT !.notify = called(TRUE)]

\* The frame test with the comparison off by one frame.
DeeperThanTargetOffByOne(current_frame_count, target_frame_count) ==
  current_frame_count > target_frame_count + 1

\* The frame test of Debug::Break: a break in a frame deeper than the target
\* frame is ignored.
DeeperThanTarget(current_frame_count, target_frame_count) ==
  current_frame_count > target_frame_count

\* The fast-forward arrival reporting a break instead of repeating the
\* StepOut.
FastForwardToReturnReporting(w, stack) ==
  OnDebugBreak(ClearStepping(w), stack, << >>, StepOut)

\* Debug::Break when fast_forward_to_return_ is set and the frame is not
\* deeper than the target: the StepOut is repeated, nothing is reported.
FastForwardToReturn(w, stack) == PrepareStep(ClearStepping(w), stack, StepOut)

\* step_break without the comparison of statement positions.
StepBreakIgnoringStatementPosition(w, stack, frame, fn, location) ==
  \/ IsReturn(location)
  \/ CurrentFrameCount(w, stack) # w.tl.last_frame_count_

\* step_break with the return locations counted for StepInto only.
StepBreakAtReturnForStepIntoOnly(w, stack, frame, fn, location) ==
  \/ IsReturn(location) /\ last_step_action(w) = StepInto
  \/ CurrentFrameCount(w, stack) # w.tl.last_frame_count_
  \/ w.tl.last_statement_position_ # SourceStatementPosition(fn, frame.pc)

\* step_break of Debug::Break for StepOver and StepInto.
StepBreak(w, stack, frame, fn, location) ==
  \/ IsReturn(location)
  \/ CurrentFrameCount(w, stack) # w.tl.last_frame_count_
  \/ w.tl.last_statement_position_ # SourceStatementPosition(fn, frame.pc)

\* The stepping table entering generator stepping at every suspend, the
\* initial yield of a generator included.
BreakSteppingAtEverySuspend(w, stack, frame, fn, location) ==
  LET step_action == last_step_action(w)
      current_frame_count == CurrentFrameCount(w, stack)
      target_frame_count == w.tl.target_frame_count_
      generator_stepping == IsSuspend(location)
      step_break ==
        \/ step_action = StepOut
        \/ StepBreak(w, stack, frame, fn, location)
      finish == IF step_break
                THEN OnDebugBreak(ClearStepping(w), stack, << >>, step_action)
                ELSE PrepareStep(ClearStepping(w), stack, step_action)
  IN  IF w.tl.fast_forward_to_return_
      THEN IF DeeperThanTarget(current_frame_count, target_frame_count)
           THEN w
           ELSE FastForwardToReturn(w, stack)
      ELSE CASE step_action = StepNone -> w
             [] step_action = StepOut ->
                  IF DeeperThanTarget(current_frame_count, target_frame_count)
                  THEN w
                  ELSE finish
             [] step_action = StepOver
                  /\ DeeperThanTarget(current_frame_count,
                                      target_frame_count) -> w
             [] OTHER ->
                  IF generator_stepping
                  THEN ClearStepping(
                         [w EXCEPT !.tl.suspended_generator_ = frame.gen])
                  ELSE finish

\* Debug::Break after the break location has been found and no break point
\* has hit: the stepping table.
BreakStepping(w, stack, frame, fn, location) ==
  LET step_action == last_step_action(w)
      current_frame_count == CurrentFrameCount(w, stack)
      target_frame_count == w.tl.target_frame_count_
      generator_stepping ==
        /\ IsSuspend(location)
        /\ (~IsGeneratorFunction(fn) \/ generator_suspend_id(fn, location) > 0)
      step_break ==
        \/ step_action = StepOut
        \/ StepBreak(w, stack, frame, fn, location)
      finish == IF step_break
                THEN OnDebugBreak(ClearStepping(w), stack, << >>, step_action)
                ELSE PrepareStep(ClearStepping(w), stack, step_action)
  IN  IF w.tl.fast_forward_to_return_
      THEN IF DeeperThanTarget(current_frame_count, target_frame_count)
           THEN w
           ELSE FastForwardToReturn(w, stack)
      ELSE CASE step_action = StepNone -> w
             [] step_action = StepOut ->
                  IF DeeperThanTarget(current_frame_count, target_frame_count)
                  THEN w
                  ELSE finish
             [] step_action = StepOver
                  /\ DeeperThanTarget(current_frame_count,
                                      target_frame_count) -> w
             [] OTHER ->
                  IF generator_stepping
                  THEN ClearStepping(
                         [w EXCEPT !.tl.suspended_generator_ = frame.gen])
                  ELSE finish

\* Break reporting a hit without clearing the stepping state first.
BreakReportingWithoutClearing(w, stack, break_target) ==
  LET frame == stack[Len(stack)]
      fn == break_target
  IN  IF ~EnsureBreakInfoOk(w, fn) THEN w
      ELSE
        LET w1 == PrepareFunctionForDebugExecution(EnsureBreakInfo(w, fn), fn)
            location == IF w1.infos[fn].can_break_at_entry THEN FromEntry[1]
                        ELSE FromFrame(w1, frame)
            r == CheckBreakPoints(w1, fn, location, frame)
        IN  IF Len(r.hit) > 0 \/ r.w.tl.break_on_next_function_call_
            THEN OnDebugBreak(r.w, stack, r.hit,
                              last_step_action(r.w))
            ELSE IF IsDebugBreakAtEntry(location) THEN r.w
            ELSE BreakStepping(r.w, stack, frame, fn, location)

\* Break going on to the stepping table at a function-entry break location.
BreakSteppingAtFunctionEntry(w, stack, break_target) ==
  LET frame == stack[Len(stack)]
      fn == break_target
  IN  IF ~EnsureBreakInfoOk(w, fn) THEN w
      ELSE
        LET w1 == PrepareFunctionForDebugExecution(EnsureBreakInfo(w, fn), fn)
            location == IF w1.infos[fn].can_break_at_entry THEN FromEntry[1]
                        ELSE FromFrame(w1, frame)
            r == CheckBreakPoints(w1, fn, location, frame)
        IN  IF Len(r.hit) > 0 \/ r.w.tl.break_on_next_function_call_
            THEN OnDebugBreak(ClearStepping(r.w), stack, r.hit,
                              last_step_action(r.w))
            ELSE BreakStepping(r.w, stack, frame, fn, location)

\* Debug::Break, inside its DebugScope and DisableBreak.  The frame is the
\* top frame; break_target is its function, or the function that breaks at
\* entry called from it.
Break(w, stack, break_target) ==
  LET frame == stack[Len(stack)]
      fn == break_target
  IN  IF ~EnsureBreakInfoOk(w, fn) THEN w
      ELSE
        LET w1 == PrepareFunctionForDebugExecution(EnsureBreakInfo(w, fn), fn)
            location == IF w1.infos[fn].can_break_at_entry THEN FromEntry[1]
                        ELSE FromFrame(w1, frame)
            r == CheckBreakPoints(w1, fn, location, frame)
        IN  IF Len(r.hit) > 0 \/ r.w.tl.break_on_next_function_call_
            THEN OnDebugBreak(ClearStepping(r.w), stack, r.hit,
                              last_step_action(r.w))
            ELSE IF IsDebugBreakAtEntry(location) THEN r.w
            ELSE BreakStepping(r.w, stack, frame, fn, location)

\* PrepareStepIn without its tests of the debug scope and of disabled
\* breaks.
PrepareStepInInsideDebugScope(w, fn) ==
  IF ignore_events(w) THEN w
  ELSE IF IsBlackboxed(w, fn) THEN IsBlackboxedState(w, fn)
  ELSE IF fn = w.tl.ignore_step_into_function_ THEN IsBlackboxedState(w, fn)
  ELSE FloodWithOneShot(
         [IsBlackboxedState(w, fn)
            EXCEPT !.tl.ignore_step_into_function_ = NoFunction],
         fn, FALSE)

\* Debug::PrepareStepIn.
PrepareStepIn(w, fn) ==
  IF ignore_events(w) \/ in_debug_scope(w) \/ w.break_disabled THEN w
  ELSE IF IsBlackboxed(w, fn) THEN IsBlackboxedState(w, fn)
  ELSE IF fn = w.tl.ignore_step_into_function_ THEN IsBlackboxedState(w, fn)
  ELSE FloodWithOneShot(
         [IsBlackboxedState(w, fn)
            EXCEPT !.tl.ignore_step_into_function_ = NoFunction],
         fn, FALSE)

\* PrepareStepInSuspendedGenerator keeping the recorded generator.
PrepareStepInSuspendedGeneratorKeepingGenerator(w, generator_fn) ==
  IF ignore_events(w) \/ in_debug_scope(w) \/ w.break_disabled THEN w
  ELSE FloodWithOneShot(
         UpdateHookOnFunctionCall(
           [w EXCEPT !.tl.last_step_action_ = StepInto]),
         generator_fn, FALSE)

\* Debug::PrepareStepInSuspendedGenerator (generator_fn is the function of
\* the recorded generator object).
PrepareStepInSuspendedGenerator(w, generator_fn) ==
  IF ignore_events(w) \/ in_debug_scope(w) \/ w.break_disabled THEN w
  ELSE [FloodWithOneShot(
          UpdateHookOnFunctionCall(
            [w EXCEPT !.tl.last_step_action_ = StepInto]),
          generator_fn, FALSE)
        EXCEPT !.tl.suspended_generator_ = NoGenerator]

\* ------------------------------------------------------------------------
\* Break point management.
\* ------------------------------------------------------------------------
\* Debug::FindBreakablePosition.
FindBreakablePosition(w, fn, source_position) ==
  IF w.infos[fn].can_break_at_entry THEN kBreakAtEntryPosition
  ELSE Locations(fn)[SkipToPosition(Locations(fn), source_position) + 1]
         .position

\* Debug::SetBreakpoint (break point object id already created).
SetBreakpoint(w, fn, id, source_position) ==
  IF ~EnsureBreakInfoOk(w, fn)
  THEN [EnsureBreakInfo(w, fn) EXCEPT !.result = FALSE]
  ELSE LET w1 == PrepareFunctionForDebugExecution(EnsureBreakInfo(w, fn), fn)
           position == FindBreakablePosition(w1, fn, source_position)
           w2 == [w1 EXCEPT !.infos[fn] =
                    DebugInfoSetBreakPoint(@, position, id)]
       IN  [ApplyBreakPoints(ClearBreakPoints(w2, fn), fn)
              EXCEPT !.result = TRUE]

\* SharedFunctionInfoFinder::NewCandidate: the candidates are the functions
\* subject to debugging that contain the position.  The functions of the
\* script do not nest, each covers ten positions from its start position.
ContainingFunctions(source_position) ==
  {fn \in Funcs : /\ IsSubjectToDebugging(fn)
                  /\ StartPosition[fn] <= source_position
                  /\ source_position < StartPosition[fn] + 10}

\* Debug::FindInnermostContainingFunctionInfo: undefined when no candidate
\* contains the position or the candidate cannot be compiled.
Undefined == "undefined"
FindInnermostContainingFunctionInfo(source_position) ==
  IF ContainingFunctions(source_position) = {} THEN Undefined
  ELSE LET fn == CHOOSE g \in ContainingFunctions(source_position) : TRUE
       IN  IF IsCompiled(fn) \/ ~CompileFails(fn) THEN fn ELSE Undefined

\* Debug::SetBreakPointForScript.
SetBreakPointForScript(w, condition, source_position) ==
  LET id == w.tl.last_breakpoint_id_ + 1
      w1 == [w EXCEPT !.tl.last_breakpoint_id_ = id,
                      !.bps = Append(@, condition)]
      fn == FindInnermostContainingFunctionInfo(source_position)
  IN  IF fn = Undefined
      THEN [(IF ContainingFunctions(source_position) = {} THEN w1
             ELSE Compile(w1, CHOOSE g \in
                                ContainingFunctions(source_position) : TRUE))
              EXCEPT !.result = FALSE]
      ELSE IF ~EnsureBreakInfoOk(w1, fn)
      THEN [EnsureBreakInfo(w1, fn) EXCEPT !.result = FALSE]
      ELSE SetBreakpoint(
             PrepareFunctionForDebugExecution(EnsureBreakInfo(w1, fn), fn),
             fn, id, source_position)

\* Debug::SetBreakpointForFunction.
SetBreakpointForFunction(w, fn, condition) ==
  LET id == w.tl.last_breakpoint_id_ + 1
      w1 == [w EXCEPT !.tl.last_breakpoint_id_ = id,
                      !.bps = Append(@, condition)]
  IN  SetBreakpoint(w1, fn, id, 0)

\* Debug::FindDebugInfo: index of the node of fn in the list.
RECURSIVE FindDebugInfo(_, _, _)
FindDebugInfo(list, fn, i) ==
  IF i > Len(list) THEN 0
  ELSE IF list[i] = fn THEN i
  ELSE FindDebugInfo(list, fn, i + 1)

\* FreeDebugInfoListNode that cuts the list off at the node.
FreeDebugInfoListNodeDroppingRest(w, i) ==
  [w EXCEPT !.infos[w.list[i]] = NoDebugInfo,
            !.list = SubSeq(w.list, 1, i - 1)]

\* Debug::FreeDebugInfoListNode: unlink node i; the function's
\* script_or_debug_info field holds the script again.
FreeDebugInfoListNode(w, i) ==
  [w EXCEPT !.infos[w.list[i]] = NoDebugInfo,
            !.list = SubSeq(w.list, 1, i - 1)
                     \o SubSeq(w.list, i + 1, Len(w.list))]

\* RemoveBreakInfoAndMaybeFree that keeps the list node.
RemoveBreakInfoNeverFree(w, fn) == [w EXCEPT !.infos[fn] = ClearBreakInfo(@)]

\* Debug::RemoveBreakInfoAndMaybeFree.
RemoveBreakInfoAndMaybeFree(w, fn) ==
  LET w1 == [w EXCEPT !.infos[fn] = ClearBreakInfo(@)]
  IN  IF IsEmpty(w1.infos[fn])
      THEN FreeDebugInfoListNode(w1, FindDebugInfo(w1.list, fn, 1))
      ELSE w1

\* Debug::ClearBreakPoint: walk the list for the DebugInfo holding id.
RECURSIVE ClearBreakPointFrom(_, _, _)
ClearBreakPointFrom(w, id, i) ==
  IF i > Len(w.list) THEN w
  ELSE LET fn == w.list[i]
       IN  IF ~w.infos[fn].has_break_info
              \/ FindBreakPointInfo(w.infos[fn].break_points, id, 1) = 0
           THEN ClearBreakPointFrom(w, id, i + 1)
           ELSE LET w1 == ClearBreakPoints(
                            [w EXCEPT !.infos[fn] =
                               DebugInfoClearBreakPoint(@, id)], fn)
                IN  IF GetBreakPointCount(w1.infos[fn]) = 0
                    THEN RemoveBreakInfoAndMaybeFree(w1, fn)
                    ELSE ApplyBreakPoints(w1, fn)

\* Debug::RemoveBreakpoint.
RemoveBreakpoint(w, id) == ClearBreakPointFrom(w, id, 1)

\* Debug::InstallCoverageInfo.
InstallCoverageInfo(w, fn) ==
  [GetOrCreateDebugInfo(w, fn) EXCEPT !.infos[fn].has_coverage_info = TRUE]

\* Debug::GetFunctionDebuggingId; Heap::NextDebuggingId hands out the next
\* id not in use.
NextDebuggingId(w) ==
  1 + CHOOSE m \in 0..Cardinality(Funcs) :
        /\ \A fn \in Funcs : w.infos[fn].debugging_id <= m
        /\ (m = 0 \/ \E fn \in Funcs : w.infos[fn].debugging_id = m)
GetFunctionDebuggingId(w, fn) ==
  LET w1 == GetOrCreateDebugInfo(w, fn)
  IN  IF w1.infos[fn].debugging_id # 0 THEN w1
      ELSE [w1 EXCEPT !.infos[fn].debugging_id = NextDebuggingId(w1)]

\* The clear functions handed to ClearAllDebugInfos by ClearAllBreakPoints,
\* RemoveAllCoverageInfos and ClearAllDebuggerHints.
ClearFunction(clear_function, w, fn) ==
  CASE clear_function = "ClearAllBreakPoints" ->
         [ClearBreakPoints(w, fn) EXCEPT !.infos[fn] = ClearBreakInfo(@)]
    [] clear_function = "RemoveAllCoverageInfos" ->
         [w EXCEPT !.infos[fn].has_coverage_info = FALSE]
    [] clear_function = "ClearAllDebuggerHints" ->
         [w EXCEPT !.infos[fn].computed_debug_is_blackboxed = FALSE,
                   !.infos[fn].debug_is_blackboxed = FALSE,
                   !.infos[fn].side_effect_state = "kNotComputed",
                   !.infos[fn].debugging_id = 0]

\* ClearAllDebugInfos that keeps every node in the list.
RECURSIVE ClearAllDebugInfosNeverFree(_, _, _)
ClearAllDebugInfosNeverFree(w, i, clear_function) ==
  IF i > Len(w.list) THEN w
  ELSE ClearAllDebugInfosNeverFree(ClearFunction(clear_function, w, w.list[i]),
                                   i + 1, clear_function)

\* Debug::ClearAllDebugInfos from node i on: a record that the clear
\* function left empty is unlinked and freed.
RECURSIVE ClearAllDebugInfos(_, _, _)
ClearAllDebugInfos(w, i, clear_function) ==
  IF i > Len(w.list) THEN w
  ELSE LET fn == w.list[i]
           w1 == ClearFunction(clear_function, w, fn)
       IN  IF IsEmpty(w1.infos[fn])
           THEN ClearAllDebugInfos(FreeDebugInfoListNode(w1, i), i,
                                   clear_function)
           ELSE ClearAllDebugInfos(w1, i + 1, clear_function)

ClearAllBreakPoints(w) == ClearAllDebugInfos(w, 1, "ClearAllBreakPoints")
RemoveAllCoverageInfos(w) == ClearAllDebugInfos(w, 1, "RemoveAllCoverageInfos")
ClearAllDebuggerHints(w) == ClearAllDebugInfos(w, 1, "ClearAllDebuggerHints")

\* Unload without ClearAllDebuggerHints.
UnloadKeepingDebuggerHints(w) ==
  [RemoveAllCoverageInfos(ClearStepping(ClearAllBreakPoints(w)))
   EXCEPT !.debug_delegate = FALSE]

\* Debug::Unload.
Unload(w) ==
  [ClearAllDebuggerHints(
     RemoveAllCoverageInfos(ClearStepping(ClearAllBreakPoints(w))))
   EXCEPT !.debug_delegate = FALSE]

\* Debug::UpdateState.
UpdateState(w) ==
  LET is_active == w.debug_delegate
  IN  IF is_active = w.is_active THEN w
      ELSE IF is_active
      THEN [w EXCEPT !.cache_enabled = FALSE,
                     !.source_positions_collected = TRUE,
                     !.is_active = TRUE]
      ELSE [Unload([w EXCEPT !.cache_enabled = TRUE])
              EXCEPT !.is_active = FALSE]

\* Debug::SetDebugDelegate.
SetDebugDelegate(w, delegate) ==
  UpdateState([w EXCEPT !.debug_delegate = delegate])

\* ------------------------------------------------------------------------
\* Side effect checks of a debug evaluation.
\* ------------------------------------------------------------------------
\* DebugEvaluate::FunctionGetSideEffectState, and DebugInfo::GetSideEffectState
\* keeping the answer as a debugger hint.
FunctionGetSideEffectState(fn) ==
  CASE fn = "s" -> "kRequiresRuntimeChecks"
    [] fn = "bb" -> "kHasNoSideEffect"
    [] OTHER -> "kHasSideEffects"
GetSideEffectState(w, fn) ==
  IF w.infos[fn].side_effect_state # "kNotComputed" THEN w
  ELSE [w EXCEPT !.infos[fn].side_effect_state =
                     FunctionGetSideEffectState(fn)]

\* The bytecodes patched by DebugEvaluate::ApplySideEffectChecks.
BytecodeRequiresRuntimeSideEffectCheck(b) == b \in {"StaNamedProperty"}

RECURSIVE ApplySideEffectChecksFrom(_, _)
ApplySideEffectChecksFrom(debug, offset) ==
  IF offset >= Len(debug) THEN debug
  ELSE ApplySideEffectChecksFrom(
         IF BytecodeRequiresRuntimeSideEffectCheck(ByteAt(debug, offset))
         THEN ApplyDebugBreak(debug, offset) ELSE debug,
         offset + 1)

\* Debug::ApplySideEffectChecks.
ApplySideEffectChecks(w, fn) ==
  [w EXCEPT !.infos[fn].debug_bytecode = ApplySideEffectChecksFrom(@, 0),
            !.infos[fn].debug_execution_mode = "kSideEffects"]

\* ClearSideEffectChecks restoring the break locations only.
ClearSideEffectChecksAtBreakLocations(w, fn) ==
  [w EXCEPT !.infos[fn].debug_bytecode =
              ClearFrom(OriginalBytecode[fn], @, Locations(fn), 1)]
\* Debug::ClearSideEffectChecks: every byte is restored from the original.
ClearSideEffectChecks(w, fn) ==
  [w EXCEPT !.infos[fn].debug_bytecode =
              [i \in DOMAIN @ |-> OriginalBytecode[fn][i]]]

\* Debug::UpdateDebugInfosForExecutionMode from node i on.
RECURSIVE UpdateDebugInfosForExecutionMode(_, _)
UpdateDebugInfosForExecutionMode(w, i) ==
  IF i > Len(w.list) THEN w
  ELSE LET fn == w.list[i]
           info == w.infos[fn]
       IN  IF info.instrumented
              /\ info.debug_execution_mode # w.debug_execution_mode
           THEN UpdateDebugInfosForExecutionMode(
                  IF w.debug_execution_mode = "kBreakpoints"
                  THEN ApplyBreakPoints(ClearSideEffectChecks(w, fn), fn)
                  ELSE ApplySideEffectChecks(ClearBreakPoints(w, fn), fn),
                  i + 1)
           ELSE UpdateDebugInfosForExecutionMode(w, i + 1)

\* Debug::StartSideEffectCheckMode.
StartSideEffectCheckMode(w) ==
  UpdateDebugInfosForExecutionMode(
    [UpdateHookOnFunctionCall(
       [w EXCEPT !.debug_execution_mode = "kSideEffects"])
     EXCEPT !.side_effect_check_failed = FALSE,
            !.temporary_objects = TRUE],
    1)

\* Isolate::TerminateExecution throws the termination exception, which no
\* handler catches; Isolate::CancelTerminateExecution takes it back.
TerminateExecution(w) ==
  [w EXCEPT !.pending = TRUE, !.exception = "termination"]
CancelTerminateExecution(w) ==
  IF w.exception = "termination"
  THEN [w EXCEPT !.pending = FALSE, !.exception = "none"]
  ELSE w
Throw(w, exception) ==
  [w EXCEPT !.pending = TRUE, !.exception = exception]

\* StopSideEffectCheckMode that leaves the termination in place.
StopSideEffectCheckModeKeepingTermination(w) ==
  UpdateDebugInfosForExecutionMode(
    [UpdateHookOnFunctionCall(
       [w EXCEPT !.debug_execution_mode = "kBreakpoints"])
     EXCEPT !.side_effect_check_failed = FALSE,
            !.temporary_objects = FALSE],
    1)

\* Debug::StopSideEffectCheckMode.
StopSideEffectCheckMode(w) ==
  LET w1 == IF w.side_effect_check_failed
            THEN Throw(CancelTerminateExecution(w), "EvalError")
            ELSE w
  IN  UpdateDebugInfosForExecutionMode(
        [UpdateHookOnFunctionCall(
           [w1 EXCEPT !.debug_execution_mode = "kBreakpoints"])
         EXCEPT !.side_effect_check_failed = FALSE,
                !.temporary_objects = FALSE],
        1)

\* Debug::PerformSideEffectCheckForObject (temporary: the object was
\* allocated by the evaluation itself).
PerformSideEffectCheckForObject(w, temporary) ==
  IF temporary THEN [w EXCEPT !.result = TRUE]
  ELSE [TerminateExecution([w EXCEPT !.side_effect_check_failed = TRUE])
          EXCEPT !.result = FALSE]

\* Debug::PerformSideEffectCheck of a called function.
PerformSideEffectCheck(w, fn) ==
  IF ~IsCompiled(fn) /\ CompileFails(fn)
  THEN [Throw(w, "error") EXCEPT !.result = FALSE]
  ELSE LET w1 == GetSideEffectState(GetOrCreateDebugInfo(w, fn), fn)
           side_effect_state == w1.infos[fn].side_effect_state
       IN  CASE side_effect_state = "kHasSideEffects" ->
                  [TerminateExecution(
                     [w1 EXCEPT !.side_effect_check_failed = TRUE])
                   EXCEPT !.result = FALSE]
             [] side_effect_state = "kRequiresRuntimeChecks" ->
                  [ApplySideEffectChecks(
                     PrepareFunctionForDebugExecution(w1, fn), fn)
                   EXCEPT !.result = TRUE]
             [] side_effect_state = "kHasNoSideEffect" ->
                  [w1 EXCEPT !.result = TRUE]

\* Debug::SetBreakOnNextFunctionCall / ClearBreakOnNextFunctionCall.
SetBreakOnNextFunctionCall(w) ==
  UpdateHookOnFunctionCall(
    [w EXCEPT !.tl.break_on_next_function_call_ = TRUE])
ClearBreakOnNextFunctionCall(w) ==
  UpdateHookOnFunctionCall(
    [w EXCEPT !.tl.break_on_next_function_call_ = FALSE])

\* DebugScope::DebugScope: the previous break frame id is kept in the scope.
\* The scope record also holds break_disabled_ as it was, the value a
\* DisableBreak declared next to the scope puts back when both are left.
EnterDebugScope(w, stack) ==
  UpdateState(
    [w EXCEPT !.scopes = Append(@, [break_frame_id_ |-> w.tl.break_frame_id_,
                                    break_disabled |-> w.break_disabled,
                                    terminate_on_resume_ |-> FALSE]),
              !.tl.break_frame_id_ = IF Len(stack) > 0 THEN Len(stack)
                                     ELSE NO_ID])

\* DisableBreak::DisableBreak, declared right after a DebugScope.
DisableBreak(w) == [w EXCEPT !.break_disabled = TRUE]

\* StackGuard::RequestTerminateExecution.
RequestTerminateExecution(w) == [w EXCEPT !.terminate_requested = TRUE]

\* DebugScope::set_terminate_on_resume, on the scope at index i of the chain.
set_terminate_on_resume(w, i) ==
  [w EXCEPT !.scopes[i].terminate_on_resume_ = TRUE]

\* Debug::SetTerminateOnResume, with a current scope (CHECK_NOT_NULL).
SetTerminateOnResume(w) == set_terminate_on_resume(w, Len(w.scopes))

\* The destructor leaving the break frame id of the scope in place.
LeaveDebugScopeKeepingBreakFrame(w) ==
  LET scope == w.scopes[Len(w.scopes)]
      w1 == IF ~scope.terminate_on_resume_ THEN w
            ELSE IF Len(w.scopes) = 1
            THEN [w EXCEPT !.terminate_requested = TRUE]
            ELSE [w EXCEPT !.scopes[Len(w.scopes) - 1].terminate_on_resume_ =
                             TRUE]
  IN  UpdateState(
        [w1 EXCEPT !.scopes = SubSeq(@, 1, Len(@) - 1),
                   !.break_disabled = scope.break_disabled])

\* The destructor requesting the termination at the exit of whichever scope
\* has terminate-on-resume set, outermost or not.
LeaveDebugScopeTerminatingAtOnce(w) ==
  LET scope == w.scopes[Len(w.scopes)]
      w1 == IF scope.terminate_on_resume_ THEN RequestTerminateExecution(w)
            ELSE w
  IN  UpdateState(
        [w1 EXCEPT !.scopes = SubSeq(@, 1, Len(@) - 1),
                   !.tl.break_frame_id_ = scope.break_frame_id_,
                   !.break_disabled = scope.break_disabled])

\* DebugScope::~DebugScope and ~DisableBreak.
LeaveDebugScope(w) ==
  LET scope == w.scopes[Len(w.scopes)]
      w1 == IF ~scope.terminate_on_resume_ THEN w
            ELSE IF Len(w.scopes) = 1 THEN RequestTerminateExecution(w)
            ELSE set_terminate_on_resume(w, Len(w.scopes) - 1)
  IN  UpdateState(
        [w1 EXCEPT !.scopes = SubSeq(@, 1, Len(@) - 1),
                   !.tl.break_frame_id_ = scope.break_frame_id_,
                   !.break_disabled = scope.break_disabled])

\* ------------------------------------------------------------------------
\* Muted locations.
\* ------------------------------------------------------------------------
\* BreakLocation::AllAtCurrentStatement: the break locations of the frame's
\* function on the statement of the break location the frame is at.
AllAtCurrentStatement(frame) ==
  LET locs == Locations(frame.fn)
      statement_position ==
        locs[BreakIndexFromCodeOffset(locs, frame.pc) + 1].statement_position
      OnStatement(loc) == loc.statement_position = statement_position
  IN  SelectSeq(locs, OnStatement)

\* The loop of IsMutedAtCurrentLocation that is muted as soon as one break
\* location has break points none of which is hit.
RECURSIVE IsMutedFromAnyLocation(_, _, _, _, _)
IsMutedFromAnyLocation(w, frame, break_locations, i, has_break_points_at_all) ==
  IF i > Len(break_locations)
  THEN [w |-> w, muted |-> has_break_points_at_all]
  ELSE LET loc == break_locations[i]
           has_break_points ==
             w.break_points_active /\ LocationHasBreakPoint(w, frame.fn, loc)
           r == CheckBreakPoints(w, frame.fn, loc, frame)
       IN  IF has_break_points /\ Len(r.hit) = 0
           THEN [w |-> r.w, muted |-> TRUE]
           ELSE IsMutedFromAnyLocation(r.w, frame, break_locations, i + 1,
                                       has_break_points_at_all)

\* The loop of IsMutedAtCurrentLocation over the break locations from index
\* i: r.muted is its answer, r.w the state the evaluations leave.
RECURSIVE IsMutedFrom(_, _, _, _, _)
IsMutedFrom(w, frame, break_locations, i, has_break_points_at_all) ==
  IF i > Len(break_locations)
  THEN [w |-> w, muted |-> has_break_points_at_all]
  ELSE LET loc == break_locations[i]
           has_break_points ==
             w.break_points_active /\ LocationHasBreakPoint(w, frame.fn, loc)
           r == CheckBreakPoints(w, frame.fn, loc, frame)
       IN  IF has_break_points /\ Len(r.hit) > 0
           THEN [w |-> r.w, muted |-> FALSE]
           ELSE IsMutedFrom(r.w, frame, break_locations, i + 1,
                            has_break_points_at_all \/ has_break_points)

\* Debug::IsMutedAtCurrentLocation.
IsMutedAtCurrentLocation(w, stack, frame) ==
  IF ~HasBreakInfo(w, frame.fn) THEN [w |-> w, muted |-> FALSE]
  ELSE LET r == IsMutedFrom(EnterDebugScope(w, stack), frame,
                            AllAtCurrentStatement(frame), 1, FALSE)
       IN  [w |-> LeaveDebugScope(r.w), muted |-> r.muted]

\* A JavaScript frame at the first bytecode of fn.
Frame(fn, x, gen) ==
  [fn |-> fn, pc |-> 0, x |-> x, gen |-> gen, broke |-> FALSE,
   inlined |-> << >>, entered |-> FALSE]

\* Runtime_DebugOnFunctionCall: the hook run when a function is invoked
\* while hook_on_function_call_ is set.
DebugOnFunctionCall(w, fn) ==
  IF w.hook /\ (last_step_action(w) = StepInto
                \/ w.tl.break_on_next_function_call_)
  THEN PrepareStepIn(w, fn) ELSE w

\* ------------------------------------------------------------------------
\* Breaks and exceptions while breaking is disabled.
\* ------------------------------------------------------------------------
\* Debug::Break entered whether or not breaks are disabled.
BreakWhileDisabled(w, stack, break_target) ==
  LeaveDebugScope(
    Break(DisableBreak(EnterDebugScope(w, stack)), stack, break_target))

\* Debug::Break from its first line, the delegate's callback returning at
\* once: while breaks are disabled nothing is done.
BreakUnlessDisabled(w, stack, break_target) ==
  IF w.break_disabled THEN w
  ELSE LeaveDebugScope(
    Break(DisableBreak(EnterDebugScope(w, stack)), stack, break_target))

\* What the code run by a delegate callback does to the debugger: nothing,
\* a patched bytecode of fn at pc is dispatched, fn is called while the hook
\* on function call may be set, or the controller requests a step.
NoNestedOperation == [kind |-> "none", fn |-> "main", pc |-> 0]
NestedOperation(w, stack, nested) ==
  CASE nested.kind = "break" ->
         BreakUnlessDisabled(
           w, Append(stack, [Frame(nested.fn, 0, NoGenerator)
                               EXCEPT !.pc = nested.pc]), nested.fn)
    [] nested.kind = "call" -> DebugOnFunctionCall(w, nested.fn)
    [] nested.kind = "step" -> PrepareStep(w, stack, StepInto)
    [] OTHER -> w

\* Debug::ChangeBreakOnException.
ChangeBreakOnException(w, type, enable) ==
  IF type = "BreakUncaughtException"
  THEN [w EXCEPT !.break_on_uncaught_exception = enable]
  ELSE [w EXCEPT !.break_on_exception = enable]

\* JavaScriptFrame::LookupExceptionHandlerInTable: the handler offset of the
\* try range the frame is in, -1 outside of every range.
LookupExceptionHandlerInTable(frame) ==
  IF frame.pc \in DOMAIN HandlerTable[frame.fn]
  THEN HandlerTable[frame.fn][frame.pc] ELSE -1

\* The topmost frame at or below i that has a handler, 0 without one.
RECURSIVE HandlerFrame(_, _)
HandlerFrame(stack, i) ==
  IF i < 1 THEN 0
  ELSE IF LookupExceptionHandlerInTable(stack[i]) > 0 THEN i
  ELSE HandlerFrame(stack, i - 1)

\* Isolate::PredictExceptionCatcher says NOT_CAUGHT.
Uncaught(stack) == HandlerFrame(stack, Len(stack)) = 0

\* Debug::IsFrameBlackboxed over the functions of the frame from index i:
\* the answer, and the state the IsBlackboxed calls leave.
RECURSIVE IsFrameBlackboxedFrom(_, _, _)
IsFrameBlackboxedFrom(w, infos, i) ==
  IF i > Len(infos) THEN [w |-> w, result |-> TRUE]
  ELSE IF ~IsBlackboxed(w, infos[i])
  THEN [w |-> IsBlackboxedState(w, infos[i]), result |-> FALSE]
  ELSE IsFrameBlackboxedFrom(IsBlackboxedState(w, infos[i]), infos, i + 1)

IsFrameBlackboxed(w, frame) ==
  IsFrameBlackboxedFrom(w, GetFunctions(frame), 1)

\* Debug::AllFramesOnStackAreBlackboxed, from frame i down.
RECURSIVE AllFramesOnStackAreBlackboxed(_, _, _)
AllFramesOnStackAreBlackboxed(w, stack, i) ==
  IF i < 1 THEN [w |-> w, result |-> TRUE]
  ELSE IF ~IsFrameBlackboxed(w, stack[i]).result
  THEN IsFrameBlackboxed(w, stack[i])
  ELSE AllFramesOnStackAreBlackboxed(IsFrameBlackboxed(w, stack[i]).w,
                                     stack, i - 1)

\* Debug::IsExceptionBlackboxed: an uncaught exception is blackboxed if all
\* frames are, a caught one if the top frame is.
IsExceptionBlackboxed(w, stack, uncaught) ==
  IF Len(stack) = 0 THEN [w |-> w, result |-> TRUE]
  ELSE IF ~uncaught \/ ~IsFrameBlackboxed(w, stack[Len(stack)]).result
  THEN IsFrameBlackboxed(w, stack[Len(stack)])
  ELSE AllFramesOnStackAreBlackboxed(
         IsFrameBlackboxed(w, stack[Len(stack)]).w, stack, Len(stack))

\* The end of Debug::OnException: the DebugScope and DisableBreak around
\* the delegate's ExceptionThrown; nested is what the callback's code does.
ExceptionThrown(w, stack, nested) ==
  LeaveDebugScope(
    NestedOperation(
      [DisableBreak(EnterDebugScope(w, stack))
         EXCEPT !.notify = Append(@, [hit |-> << >>, delivered |-> TRUE])],
      stack, nested))

\* OnException with the muted location and the blackboxed frames checked in
\* state w: the event is dropped or reaches the delegate.
OnExceptionChecked(w, stack, uncaught, muted, nested) ==
  IF muted THEN w
  ELSE IF IsExceptionBlackboxed(w, stack, uncaught).result
  THEN IsExceptionBlackboxed(w, stack, uncaught).w
  ELSE ExceptionThrown(IsExceptionBlackboxed(w, stack, uncaught).w, stack,
                       nested)

\* Debug::OnException for an exception that is no promise rejection.
OnException(w, stack, nested) ==
  IF ~w.debug_delegate THEN w
  ELSE IF ~w.break_on_exception /\ ~w.break_on_uncaught_exception THEN w
  ELSE IF ~Uncaught(stack) /\ ~w.break_on_exception THEN w
  ELSE IF Len(stack) = 0 THEN w
  ELSE OnExceptionChecked(
         IsMutedAtCurrentLocation(w, stack, stack[Len(stack)]).w, stack,
         Uncaught(stack),
         IsMutedAtCurrentLocation(w, stack, stack[Len(stack)]).muted,
         nested)

\* The second loop of PrepareStepOnThrow, at function j of frame i (the
\* functions of a frame are visited innermost first): the first function at
\* or below the handler that is not deeper than the target frame of a
\* StepOver or StepOut and is not blackboxed is flooded.
RECURSIVE StepOnThrowWalk(_, _, _, _, _, _)
StepOnThrowWalk(w, stack, i, j, current_frame_count, found_handler) ==
  IF i < 1 THEN w
  ELSE IF j < 1
  THEN IF i = 1 THEN w
       ELSE StepOnThrowWalk(w, stack, i - 1,
                            FrameFunctionCount(stack[i - 1]),
                            current_frame_count, found_handler)
  ELSE LET fn == GetFunctions(stack[i])[j]
           found == \/ found_handler
                    \/ FrameFunctionCount(stack[i]) = 1
                    \/ /\ j = FrameFunctionCount(stack[i])
                       /\ LookupExceptionHandlerInTable(stack[i]) > 0
       IN  IF ~found
           THEN StepOnThrowWalk(w, stack, i, j - 1, current_frame_count - 1,
                                FALSE)
           ELSE IF /\ last_step_action(w) \in {StepOver, StepOut}
                   /\ current_frame_count > w.tl.target_frame_count_
           THEN StepOnThrowWalk(w, stack, i, j - 1, current_frame_count - 1,
                                TRUE)
           ELSE IF IsBlackboxed(w, fn)
           THEN StepOnThrowWalk(IsBlackboxedState(w, fn), stack, i, j - 1,
                                current_frame_count - 1, TRUE)
           ELSE FloodWithOneShot(IsBlackboxedState(w, fn), fn, FALSE)

\* CurrentFrameCount less the functions of the frames above frame i.
RECURSIVE FrameCountAt(_, _, _, _)
FrameCountAt(stack, top, i, current_frame_count) ==
  IF top <= i THEN current_frame_count
  ELSE FrameCountAt(stack, top - 1, i,
                    current_frame_count - FrameFunctionCount(stack[top]))

\* PrepareStepOnThrow without its tests of the debug scope and of disabled
\* breaks.
PrepareStepOnThrowInsideDebugScope(w, stack) ==
  IF last_step_action(w) = StepNone THEN w
  ELSE IF ignore_events(w) THEN w
  ELSE IF Uncaught(stack) THEN ClearOneShot(w)
  ELSE StepOnThrowWalk(
         ClearOneShot(w), stack, HandlerFrame(stack, Len(stack)),
         FrameFunctionCount(stack[HandlerFrame(stack, Len(stack))]),
         FrameCountAt(stack, Len(stack), HandlerFrame(stack, Len(stack)),
                      CurrentFrameCount(ClearOneShot(w), stack)),
         FALSE)

\* Debug::PrepareStepOnThrow.
PrepareStepOnThrow(w, stack) ==
  IF last_step_action(w) = StepNone THEN w
  ELSE IF ignore_events(w) THEN w
  ELSE IF in_debug_scope(w) THEN w
  ELSE IF w.break_disabled THEN w
  ELSE IF Uncaught(stack) THEN ClearOneShot(w)
  ELSE StepOnThrowWalk(
         ClearOneShot(w), stack, HandlerFrame(stack, Len(stack)),
         FrameFunctionCount(stack[HandlerFrame(stack, Len(stack))]),
         FrameCountAt(stack, Len(stack), HandlerFrame(stack, Len(stack)),
                      CurrentFrameCount(ClearOneShot(w), stack)),
         FALSE)

\* Debug::OnThrow up to the test of the termination request.
OnThrow(w, stack, nested) ==
  IF in_debug_scope(w) \/ ignore_events(w) THEN w
  ELSE PrepareStepOnThrow(OnException(w, stack, nested), stack)

\* ------------------------------------------------------------------------
\* Debug::TemporaryObjectsTracker.  objects_ is a std::unordered_set: an
\* insertion takes time, and an operation of another thread on the set that
\* falls into that time is a data race, after which the set holds anything
\* and a lookup answers anything.  The mutator thread reports allocations,
\* the collector's threads report moves.
\* ------------------------------------------------------------------------
MaxAddress == 3
Addresses == 1..MaxAddress
Mutator == "mutator"
CollectorThreads == {"gc1", "gc2"}
Idle == [pc |-> "idle", from |-> 0, to |-> 0, found |-> FALSE, tracked_before |-> FALSE, raced |-> FALSE]
NewTemporaryObjectsTracker ==
  [objects_ |-> {}, disabled |-> FALSE, mutex_ |-> "",
   at |-> [t \in CollectorThreads \cup {Mutator} |-> Idle]]

\* An insertion of the mutator is under way: it has begun and not ended.
Inserting(tr) == tr.at[Mutator].pc = "inserting"

\* AllocationEvent: if (disabled) return; then objects_.insert(addr), which
\* begins (InsertBegin) and ends (InsertEnd) without the mutex.
AllocationEvent(tr, addr) ==
  IF tr.disabled THEN tr
  ELSE [tr EXCEPT !.at[Mutator] = [Idle EXCEPT !.pc = "insert", !.to = addr]]
InsertBegin(tr) == [tr EXCEPT !.at[Mutator].pc = "inserting"]
InsertEnd(tr, undefined) ==
  [tr EXCEPT !.objects_ = IF tr.at[Mutator].raced THEN undefined
                          ELSE @ \cup {tr.at[Mutator].to},
             !.at[Mutator] = Idle]

\* MoveEvent: if (from == to) return; MutexGuard guard(&mutex_);
MoveEvent(tr, t, from, to) ==
  IF from = to THEN tr
  ELSE [tr EXCEPT !.at[t] = [Idle EXCEPT !.pc = "lock", !.from = from,
                                         !.to = to]]
MutexGuard(tr, t) == [tr EXCEPT !.mutex_ = t, !.at[t].pc = "find"]
\* auto it = objects_.find(from);
Find(tr, t, undefined) ==
  [tr EXCEPT !.at[t].found = IF Inserting(tr) THEN undefined
                             ELSE tr.at[t].from \in tr.objects_,
             !.at[t].tracked_before = tr.at[t].from \in tr.objects_,
             !.at[t].pc = "update",
             !.at[Mutator].raced = @ \/ Inserting(tr)]
\* if (it == objects_.end()) { objects_.erase(to); return; }
\* objects_.erase(it); objects_.insert(to);  and the guard's release.
Update(tr, t, undefined) ==
  [tr EXCEPT !.objects_ = IF Inserting(tr) THEN undefined
                          ELSE IF tr.at[t].found
                               THEN (@ \ {tr.at[t].from}) \cup {tr.at[t].to}
                               ELSE @ \ {tr.at[t].to},
             !.mutex_ = "",
             !.at[t] = Idle,
             !.at[Mutator].raced = @ \/ Inserting(tr)]

\* Debug::SetTemporaryObjectTrackingDisabled.
SetTemporaryObjectTrackingDisabled(tr, disabled) == [tr EXCEPT !.disabled = disabled]

\* The addresses a report under way speaks of: the object being moved lives
\* at from and its new place at to is taken, so nothing is allocated there.
InMove(tr) ==
  UNION {{tr.at[t].from, tr.at[t].to} : t \in {u \in CollectorThreads : tr.at[u].pc # "idle"}}

\* ------------------------------------------------------------------------
\* ThreadId (thread-id.cc).  GetThreadId() is evaluated anew at every use of
\* thread_id; it reads the static key at the test, at pthread_getspecific
\* and at pthread_setspecific.  A cell is the int a thread stored under a
\* key; pthread_key_create hands out keys 1, 2, ...
\* ------------------------------------------------------------------------
MaxCalls == 2
Threads == {"A", "B"}
PthreadKeys == 1..Cardinality(Threads)
Null == -1
Invalid == -1
NotCalling == [call |-> "none", phase |-> 0, pc |-> "idle", v |-> 0, fetched |-> 0, calls |-> 0, received |-> {}, result |-> 0]
InitialThreadIds ==
  [key |-> 0, created |-> 0, next_thread_id |-> 1, aborted |-> FALSE,
   cells |-> [t \in Threads |-> [k \in PthreadKeys |-> Null]],
   at |-> [t \in Threads |-> NotCalling]]

\* A thread calls GetCurrentThreadId or TryGetCurrent.
CallThreadId(th, t, fn) ==
  [th EXCEPT !.at[t].call = fn, !.at[t].phase = 1, !.at[t].pc = "test",
             !.at[t].calls = @ + 1]

\* GetThreadId: if (!key)
TestKey(th, t) ==
  [th EXCEPT !.at[t].pc = IF th.key = 0 THEN "create" ELSE "get"]
\* GetThreadId: pthread_key_create(&key, nullptr);
PthreadKeyCreate(th, t) ==
  [th EXCEPT !.created = @ + 1, !.key = th.created + 1, !.at[t].pc = "get"]
\* GetThreadId: int* v = (int*)pthread_getspecific(key); if (!v)
PthreadGetspecific(th, t) ==
  IF th.cells[t][th.key] = Null THEN [th EXCEPT !.at[t].pc = "set"]
  ELSE [th EXCEPT !.at[t].pc = "use", !.at[t].v = th.key]
\* GetThreadId: v = new int(0); pthread_setspecific(key, v); return *v;
PthreadSetspecific(th, t) ==
  [th EXCEPT !.cells[t][th.key] = 0, !.at[t].pc = "use", !.at[t].v = th.key]

\* The int that the reference GetThreadId returned refers to.
ThreadIdCell(th, t) == th.cells[t][th.at[t].v]
NextUse(th, t, phase) == [th EXCEPT !.at[t].phase = phase, !.at[t].pc = "test"]
ReturnThreadId(th, t, result) ==
  [th EXCEPT !.at[t].call = "none", !.at[t].phase = 0, !.at[t].pc = "idle",
             !.at[t].result = result,
             !.at[t].received = IF th.at[t].call = "GetCurrentThreadId"
                                THEN @ \cup {result} ELSE @]

\* next_thread_id.fetch_add(1)
FetchAdd(th, t) ==
  [th EXCEPT !.at[t].fetched = th.next_thread_id, !.next_thread_id = @ + 1,
             !.at[t].phase = 2, !.at[t].pc = "test"]

\* ThreadId::GetCurrentThreadId, at a use of thread_id:
\*   1  if (thread_id == 0)            2  thread_id = <fetched>;
\*   3  CHECK_LE(1, thread_id);        4  return thread_id;
GetCurrentThreadId(th, t) ==
  CASE th.at[t].phase = 1 ->
         IF ThreadIdCell(th, t) = 0 THEN [th EXCEPT !.at[t].pc = "fetch"]
         ELSE NextUse(th, t, 4)
    [] th.at[t].phase = 2 ->
         NextUse([th EXCEPT !.cells[t][th.at[t].v] = th.at[t].fetched], t, 3)
    [] th.at[t].phase = 3 ->
         IF 1 <= ThreadIdCell(th, t) THEN NextUse(th, t, 4)
         ELSE [th EXCEPT !.aborted = TRUE]
    [] OTHER -> ReturnThreadId(th, t, ThreadIdCell(th, t))

\* ThreadId::TryGetCurrent:
\*   1  thread_id == 0 ? Invalid()     2  : ThreadId(thread_id)
TryGetCurrent(th, t) ==
  IF th.at[t].phase = 1
  THEN IF ThreadIdCell(th, t) = 0 THEN ReturnThreadId(th, t, Invalid)
       ELSE NextUse(th, t, 2)
  ELSE ReturnThreadId(th, t, ThreadIdCell(th, t))

\* ------------------------------------------------------------------------
\* Archiving and restoring the per-thread state.
\* ------------------------------------------------------------------------
\* The buffer before any ArchiveDebug wrote to it.
NoStorage == [written |-> FALSE, thread_local |-> ThreadInit]

\* Debug::ArchiveDebug: thread_local_ is copied into the buffer.
ArchiveDebug(w) == [written |-> TRUE, thread_local |-> w.tl]

\* The frame walk of RestoreDebug from frame i, current_frame_count functions
\* counted from it: the frame at which the count is down to
\* target_frame_count, NO_ID when the iterator is done before that.
RECURSIVE RestoreWalk(_, _, _, _)
RestoreWalk(stack, i, current_frame_count, target_frame_count) ==
  IF i < 1 THEN NO_ID
  ELSE IF current_frame_count <= target_frame_count THEN i
  ELSE RestoreWalk(stack, i - 1,
                   current_frame_count - FrameFunctionCount(stack[i]),
                   target_frame_count)

\* RestoreDebug up to the frame walk: the buffer is copied back, the debug
\* scope is entered and the one-shot breaks are cleared.
RestoreDebugEnter(w, stack, buffer) ==
  ClearOneShot(EnterDebugScope([w EXCEPT !.tl = buffer.thread_local], stack))

\* The frame RestoreDebug's walk ends at, for the state inside its scope.
RestoreDebugFrame(w, stack) ==
  RestoreWalk(stack, Len(stack), CurrentFrameCount(w, stack),
              w.tl.target_frame_count_)

\* The walk of RestoreDebug runs past the last frame: FrameFunctionCount and
\* frame() are then called on an iterator that is done.
RestoreWalkLeavesStack(w, stack, buffer) ==
  LET w1 == RestoreDebugEnter(w, stack, buffer)
  IN  /\ w1.tl.last_step_action_ # StepNone
      /\ RestoreDebugFrame(w1, stack) = NO_ID

\* What reading the frame of a done iterator can yield: the process dies, or
\* some frame id is read.
RestoreOutcomes(stack) ==
  {[crash |-> TRUE, id |-> NO_ID]}
    \cup {[crash |-> FALSE, id |-> id] : id \in 0..Len(stack)}

\* The walk stayed on the stack: nothing undefined is read.
NothingUndefined == [crash |-> FALSE, id |-> NO_ID]

\* Debug::RestoreDebug, for a walk that returns; undefined is the frame id
\* read when the walk has left the stack.
RestoreDebug(w, stack, buffer, undefined) ==
  LET w1 == RestoreDebugEnter(w, stack, buffer)
  IN  IF w1.tl.last_step_action_ = StepNone THEN LeaveDebugScope(w1)
      ELSE LET frame == RestoreDebugFrame(w1, stack)
               w2 == [w1 EXCEPT !.tl.break_frame_id_ =
                        IF frame = NO_ID THEN undefined.id ELSE frame]
           IN  LeaveDebugScope(PrepareStep(w2, stack,
                                           w2.tl.last_step_action_))

\* ------------------------------------------------------------------------
\* State.
\* ------------------------------------------------------------------------
VARIABLES
  thread_local_,           \* Debug::thread_local_
  hook_on_function_call_,  \* Debug::hook_on_function_call_
  debug_info_list_,        \* Debug::debug_info_list_, head first
  debug_infos,             \* the DebugInfo of each function
  break_point_objects,     \* BreakPoint objects: id -> condition
  debug_scopes,            \* chain of DebugScopes, innermost last
  debug_flags,             \* the other members of Debug and of the isolate
  stack,                   \* JavaScript frames, bottom first
  generator,               \* the generator object of gen
  mode,                    \* "running", "paused" (in BreakProgramRequested), "done"
  last_event,              \* what the last step did
  session,                 \* the step requests and reports since a step began
  it_table, it_arg, it_result,   \* BreakIterator queries on drawn tables
  it_query,                \* the BreakIterator function that was queried
  patch_prev,              \* bytecode before the last SetDebugBreak
  storage,                 \* the buffer ArchiveDebug wrote, while parked
  tracker,                 \* Debug::temporary_objects_ and the threads reporting to it
  thread_ids               \* the statics of thread-id.cc and the threads calling it

vars == <<thread_local_, hook_on_function_call_, debug_info_list_, debug_infos,
          break_point_objects, debug_scopes, debug_flags, stack, generator,
          mode, last_event, session, it_table, it_arg, it_result, it_query,
          patch_prev, storage, tracker, thread_ids>>

dbg_vars == <<thread_local_, hook_on_function_call_, debug_info_list_,
              debug_infos, break_point_objects, debug_scopes, debug_flags>>
prog_vars == <<stack, generator, mode>>
iter_vars == <<it_table, it_arg, it_result, it_query>>
debug_vars == <<dbg_vars, prog_vars, last_event, session, iter_vars, patch_prev,
                storage>>

\* The debugger state as one record, and its assignment to the variables.
W ==
  [tl |-> thread_local_, hook |-> hook_on_function_call_,
   list |-> debug_info_list_, infos |-> debug_infos,
   bps |-> break_point_objects, scopes |-> debug_scopes,
   break_disabled |-> debug_flags.break_disabled_,
   break_points_active |-> debug_flags.break_points_active_,
   is_active |-> debug_flags.is_active_,
   is_suppressed |-> debug_flags.is_suppressed_,
   debug_delegate |-> debug_flags.debug_delegate_,
   debug_execution_mode |-> debug_flags.debug_execution_mode,
   pending |-> debug_flags.has_pending_exception,
   cache_enabled |-> debug_flags.script_and_eval_cache_enabled,
   source_positions_collected |-> debug_flags.source_positions_collected,
   exception |-> debug_flags.pending_exception,
   side_effect_check_failed |-> debug_flags.side_effect_check_failed_,
   temporary_objects |-> debug_flags.temporary_objects_,
   terminate_requested |-> debug_flags.terminate_execution_requested,
   break_on_exception |-> debug_flags.break_on_exception_,
   break_on_uncaught_exception |-> debug_flags.break_on_uncaught_exception_,
   evals |-> << >>, notify |-> << >>, result |-> TRUE]

SetW(w) ==
  /\ thread_local_' = w.tl
  /\ hook_on_function_call_' = w.hook
  /\ debug_info_list_' = w.list
  /\ debug_infos' = w.infos
  /\ break_point_objects' = w.bps
  /\ debug_scopes' = w.scopes
  /\ debug_flags' = [break_disabled_ |-> w.break_disabled,
                     break_points_active_ |-> w.break_points_active,
                     is_active_ |-> w.is_active,
                     is_suppressed_ |-> w.is_suppressed,
                     debug_delegate_ |-> w.debug_delegate,
                     debug_execution_mode |-> w.debug_execution_mode,
                     has_pending_exception |-> w.pending,
                     script_and_eval_cache_enabled |-> w.cache_enabled,
                     source_positions_collected |->
                         w.source_positions_collected,
                     pending_exception |-> w.exception,
                     side_effect_check_failed_ |-> w.side_effect_check_failed,
                     temporary_objects_ |-> w.temporary_objects,
                     terminate_execution_requested |-> w.terminate_requested,
                     break_on_exception_ |-> w.break_on_exception,
                     break_on_uncaught_exception_ |->
                         w.break_on_uncaught_exception]

\* The variables hold the debugger state w.
IsW(w) ==
  /\ thread_local_ = w.tl
  /\ hook_on_function_call_ = w.hook
  /\ debug_info_list_ = w.list
  /\ debug_infos = w.infos
  /\ break_point_objects = w.bps
  /\ debug_scopes = w.scopes
  /\ debug_flags = [break_disabled_ |-> w.break_disabled,
                    break_points_active_ |-> w.break_points_active,
                    is_active_ |-> w.is_active,
                    is_suppressed_ |-> w.is_suppressed,
                    debug_delegate_ |-> w.debug_delegate,
                    debug_execution_mode |-> w.debug_execution_mode,
                    has_pending_exception |-> w.pending,
                    script_and_eval_cache_enabled |-> w.cache_enabled,
                    source_positions_collected |->
                        w.source_positions_collected,
                    pending_exception |-> w.exception,
                    side_effect_check_failed_ |-> w.side_effect_check_failed,
                    temporary_objects_ |-> w.temporary_objects,
                    terminate_execution_requested |-> w.terminate_requested,
                    break_on_exception_ |-> w.break_on_exception,
                    break_on_uncaught_exception_ |->
                        w.break_on_uncaught_exception]

\* Debug::Debug with a delegate installed (SetDebugDelegate, UpdateState).
InitialW ==
  [tl |-> ThreadInit, hook |-> FALSE, list |-> << >>,
   infos |-> [fn \in Funcs |-> NoDebugInfo], bps |-> << >>,
   scopes |-> << >>, break_disabled |-> FALSE, break_points_active |-> TRUE,
   is_active |-> TRUE, is_suppressed |-> FALSE, debug_delegate |-> TRUE,
   debug_execution_mode |-> "kBreakpoints", pending |-> FALSE,
   cache_enabled |-> FALSE, source_positions_collected |-> TRUE,
   exception |-> "none", side_effect_check_failed |-> FALSE,
   temporary_objects |-> FALSE, terminate_requested |-> FALSE,
   break_on_exception |-> FALSE, break_on_uncaught_exception |-> FALSE,
   evals |-> << >>, notify |-> << >>, result |-> TRUE]

DebugInit == IsW(InitialW)

Event(op, fn, pc, depth, w, arg) ==
  [op |-> op, fn |-> fn, pc |-> pc, depth |-> depth, notify |-> w.notify,
   evals |-> w.evals, arg |-> arg, result |-> w.result]
NoEvent == [op |-> "Init", fn |-> "main", pc |-> 0, depth |-> 0,
            notify |-> << >>, evals |-> << >>, arg |-> "", result |-> TRUE]

NoSession == [request |-> StepNone, at_fn |-> "main", at_pc |-> 0,
              at_depth |-> 1, left |-> FALSE, reports |-> << >>]

IterIdle ==
  /\ it_table = [bytes |-> <<"Ldar">>, positions |-> <<0>>,
                 statements |-> <<TRUE>>]
  /\ it_arg = 0
  /\ it_result = -1
  /\ it_query = "none"

Init ==
  /\ DebugInit
  /\ stack = <<Frame("main", 0, NoGenerator)>>
  /\ generator = [state |-> "none", resume_pc |-> 0]
  /\ mode = "running"
  /\ last_event = NoEvent
  /\ session = NoSession
  /\ IterIdle
  /\ patch_prev = << >>
  /\ storage = NoStorage
  /\ tracker = NewTemporaryObjectsTracker
  /\ thread_ids = InitialThreadIds

\* ------------------------------------------------------------------------
\* The interpreter.
\* ------------------------------------------------------------------------
Top == stack[Len(stack)]

\* The bytecode the interpreter dispatches on: the debug copy once the
\* function runs instrumented bytecode.
ActiveByte(fn, pc) ==
  IF debug_infos[fn].exists /\ debug_infos[fn].instrumented
  THEN ByteAt(debug_infos[fn].debug_bytecode, pc)
  ELSE ByteAt(OriginalBytecode[fn], pc)

\* Offset of the bytecode after the one at pc (a prefix and its bytecode
\* are one instruction).
NextOffset(fn, pc) ==
  IF IsPrefixScalingBytecode(ByteAt(OriginalBytecode[fn], pc))
  THEN pc + 2 ELSE pc + 1

OriginalInstruction(fn, pc) ==
  IF IsPrefixScalingBytecode(ByteAt(OriginalBytecode[fn], pc))
  THEN ByteAt(OriginalBytecode[fn], pc + 1)
  ELSE ByteAt(OriginalBytecode[fn], pc)

BreakPending ==
  /\ mode = "running" /\ Len(stack) > 0
  /\ ~Top.broke
  /\ IsDebugBreak(ActiveByte(Top.fn, Top.pc))

\* The report a delivered OnDebugBreak makes, as the controller sees it.
Report(w) ==
  [fn |-> Top.fn, position |-> SourcePosition(Top.fn, Top.pc),
   depth |-> Len(stack), hit |-> w.notify[Len(w.notify)].hit]

Delivered(w) ==
  Len(w.notify) > 0 /\ w.notify[Len(w.notify)].delivered

\* A patched bytecode is dispatched: Runtime_DebugBreakOnBytecode calls
\* Debug::Break.  When the delegate is notified the program stays paused
\* inside Break until the controller resumes it.
BreakArrive ==
  /\ BreakPending
  /\ IF debug_flags.break_disabled_
     THEN /\ UNCHANGED dbg_vars
          /\ mode' = mode
          /\ last_event' = Event("Break", Top.fn, Top.pc, Len(stack), W,
                                 "disabled")
          /\ session' = session
     ELSE \E w \in {Break(DisableBreak(EnterDebugScope(W, stack)), stack,
                       Top.fn)} :
            /\ IF Delivered(w)
               THEN SetW(w) /\ mode' = "paused"
               ELSE SetW(LeaveDebugScope(w)) /\ mode' = "running"
            /\ last_event' = Event("Break", Top.fn, Top.pc, Len(stack), w,
                                   "")
            /\ session' = IF Delivered(w) /\ session.at_pc = 0
                               /\ session.request = StepInto
                          THEN [session EXCEPT !.reports =
                                  Append(@, Report(w))]
                          ELSE session
  /\ stack' = [stack EXCEPT ![Len(stack)].broke = TRUE]
  /\ UNCHANGED <<generator, iter_vars, patch_prev, storage, tracker, thread_ids>>

\* The controller answers a break report: a step request (PrepareStep is
\* called inside the DebugScope of Break) or a plain resume.
Resume(resp) ==
  /\ mode = "paused"
  /\ LET w == IF resp = "continue" THEN W ELSE PrepareStep(W, stack, resp)
     IN  /\ SetW(LeaveDebugScope(w))
         /\ last_event' = Event("Resume", Top.fn, Top.pc, Len(stack), w, resp)
  /\ mode' = "running"
  /\ session' = IF resp = StepInto /\ session.request = StepInto
                   /\ session.at_pc = 0 /\ session.at_fn = Top.fn
                THEN session
                ELSE [request |-> IF resp = "continue" THEN StepNone
                                  ELSE resp,
                      at_fn |-> Top.fn, at_pc |-> Top.pc,
                      at_depth |-> Len(stack), left |-> FALSE,
                      reports |-> << >>]
  /\ UNCHANGED <<stack, generator, iter_vars, patch_prev, storage, tracker, thread_ids>>

\* The interpreter may execute the bytecode at the top frame's pc: it is not
\* patched, or Break has already run for it.
CanExecute ==
  /\ mode = "running" /\ Len(stack) > 0
  /\ (Top.broke \/ ~IsDebugBreak(ActiveByte(Top.fn, Top.pc)))

\* The resume trampoline of generators: the function-call hook if it is
\* set, otherwise PrepareStepInSuspendedGenerator when the resumed
\* generator is the recorded one.
DebugOnGeneratorResume(w, gen, fn) ==
  IF w.hook THEN DebugOnFunctionCall(w, fn)
  ELSE IF w.tl.suspended_generator_ = gen
       THEN PrepareStepInSuspendedGenerator(w, fn)
  ELSE w

\* A bytecode that neither calls nor leaves the frame.
ExecutePlain ==
  /\ CanExecute
  /\ Top.pc \notin DOMAIN CallTarget[Top.fn]
  /\ OriginalInstruction(Top.fn, Top.pc) \notin {"Return", "SuspendGenerator"}
  /\ stack' = [stack EXCEPT ![Len(stack)].pc = NextOffset(Top.fn, Top.pc),
                            ![Len(stack)].broke = FALSE]
  /\ last_event' = Event("Execute", Top.fn, Top.pc, Len(stack), W, "")
  /\ UNCHANGED <<dbg_vars, generator, mode, session, iter_vars, patch_prev, storage, tracker, thread_ids>>

\* A call (or a getter): the callee's frame is pushed; r recurses until the
\* stack is MaxDepth frames deep, where its call runs a native function.
ExecuteCall(x) ==
  /\ CanExecute
  /\ Top.pc \in DOMAIN CallTarget[Top.fn]
  /\ LET callee == CallTarget[Top.fn][Top.pc]
     IN  /\ callee # "next" /\ ~IsNativeOrApi(callee)
         /\ x \in (IF callee = "f" THEN ArgValues ELSE {0})
         /\ IF Len(stack) < MaxDepth
            THEN /\ stack' = Append(stack,
                       Frame(callee, x, IF IsGeneratorFunction(callee)
                                        THEN "G" ELSE NoGenerator))
                 /\ SetW(DebugOnFunctionCall(W, callee))
                 /\ generator' = IF IsGeneratorFunction(callee)
                                 THEN [state |-> "running", resume_pc |-> 0]
                                 ELSE generator
                 /\ last_event' = Event("Call", Top.fn, Top.pc, Len(stack),
                                        W, callee)
            ELSE /\ stack' = [stack EXCEPT
                       ![Len(stack)].pc = NextOffset(Top.fn, Top.pc),
                       ![Len(stack)].broke = FALSE]
                 /\ UNCHANGED <<dbg_vars, generator>>
                 /\ last_event' = Event("Execute", Top.fn, Top.pc,
                                        Len(stack), W, "")
  /\ UNCHANGED <<mode, session, iter_vars, patch_prev, storage, tracker, thread_ids>>

\* generator.next(): the suspended generator is resumed.
ExecuteResume ==
  /\ CanExecute
  /\ Top.pc \in DOMAIN CallTarget[Top.fn]
  /\ CallTarget[Top.fn][Top.pc] = "next"
  /\ IF generator.state = "suspended" /\ Len(stack) < MaxDepth
     THEN /\ stack' = Append(stack,
                [Frame("gen", 0, "G") EXCEPT !.pc = generator.resume_pc])
          /\ SetW(DebugOnGeneratorResume(W, "G", "gen"))
          /\ generator' = [generator EXCEPT !.state = "running"]
          /\ last_event' = Event("ResumeGenerator", Top.fn, Top.pc,
                                 Len(stack), W, "gen")
     ELSE /\ stack' = [stack EXCEPT
                ![Len(stack)].pc = NextOffset(Top.fn, Top.pc),
                ![Len(stack)].broke = FALSE]
          /\ UNCHANGED <<dbg_vars, generator>>
          /\ last_event' = Event("Execute", Top.fn, Top.pc, Len(stack), W, "")
  /\ UNCHANGED <<mode, session, iter_vars, patch_prev, storage, tracker, thread_ids>>

\* The native and API functions: they run without a JavaScript frame of
\* their own.
NativeFunctions == {fn \in Funcs : IsNativeOrApi(fn)}

\* The call at the top frame is the call of the native or API function.
NativeCallee(callee) ==
  /\ Top.pc \in DOMAIN CallTarget[Top.fn]
  /\ CallTarget[Top.fn][Top.pc] = callee

\* The debug break trampoline of a function with BreakAtEntry set calls
\* Debug::Break with the frame of the caller and the function as the break
\* target, after the hook on function call.
BreakAtEntryArrive ==
  /\ CanExecute /\ ~Top.entered
  /\ \E callee \in NativeFunctions :
       /\ NativeCallee(callee)
       /\ LET w1 == DebugOnFunctionCall(W, callee)
          IN  /\ w1.infos[callee].break_at_entry
              /\ IF w1.break_disabled
                 THEN /\ SetW(w1)
                      /\ mode' = mode
                      /\ last_event' = Event("BreakAtEntry", Top.fn, Top.pc,
                                             Len(stack), w1, "disabled")
                 ELSE \E w \in {Break(DisableBreak(EnterDebugScope(w1, stack)),
                                       stack,
                                       callee)} :
                        /\ IF Delivered(w)
                           THEN SetW(w) /\ mode' = "paused"
                           ELSE /\ SetW(LeaveDebugScope(w))
                                /\ mode' = "running"
                        /\ last_event' = Event("BreakAtEntry", Top.fn,
                                               Top.pc, Len(stack), w,
                                               callee)
  /\ stack' = [stack EXCEPT ![Len(stack)].entered = TRUE]
  /\ UNCHANGED <<generator, session, iter_vars, patch_prev, storage, tracker, thread_ids>>

\* The native or API function runs and returns to the caller.
ExecuteNativeCall ==
  /\ CanExecute
  /\ \E callee \in NativeFunctions :
       /\ NativeCallee(callee)
       /\ LET w1 == IF Top.entered THEN W
                    ELSE DebugOnFunctionCall(W, callee)
          IN  /\ Top.entered \/ ~w1.infos[callee].break_at_entry
              /\ SetW(w1)
              /\ last_event' = Event("NativeCall", Top.fn, Top.pc,
                                     Len(stack), w1, callee)
  /\ stack' = [stack EXCEPT ![Len(stack)].pc = NextOffset(Top.fn, Top.pc),
                            ![Len(stack)].broke = FALSE,
                            ![Len(stack)].entered = FALSE]
  /\ UNCHANGED <<generator, mode, session, iter_vars, patch_prev, storage, tracker, thread_ids>>

\* Return and SuspendGenerator leave the frame; the caller goes on after
\* its call.
ExecuteLeave ==
  /\ CanExecute
  /\ OriginalInstruction(Top.fn, Top.pc) \in {"Return", "SuspendGenerator"}
  /\ LET rest == SubSeq(stack, 1, Len(stack) - 1)
     IN  /\ stack' = IF Len(rest) = 0 THEN rest
                     ELSE [rest EXCEPT
                            ![Len(rest)].pc =
                                NextOffset(rest[Len(rest)].fn,
                                           rest[Len(rest)].pc),
                            ![Len(rest)].broke = FALSE]
         /\ mode' = IF Len(rest) = 0 THEN "done" ELSE mode
  /\ generator' =
       IF Top.gen = NoGenerator THEN generator
       ELSE IF OriginalInstruction(Top.fn, Top.pc) = "SuspendGenerator"
       THEN [state |-> "suspended", resume_pc |-> NextOffset(Top.fn, Top.pc)]
       ELSE [generator EXCEPT !.state = "closed"]
  /\ last_event' = Event("Leave", Top.fn, Top.pc, Len(stack), W,
                         OriginalInstruction(Top.fn, Top.pc))
  /\ session' = IF Len(stack) = session.at_depth
                THEN [session EXCEPT !.left = TRUE] ELSE session
  /\ UNCHANGED <<dbg_vars, iter_vars, patch_prev, storage, tracker, thread_ids>>

\* ------------------------------------------------------------------------
\* The controller, while the program runs or is paused.
\* ------------------------------------------------------------------------
\* The break point requests the controller makes: <<position, condition>>.
BreakpointRequests ==
  {<<11, "">>, <<12, "">>, <<12, "x > 5">>, <<12, "throw">>, <<12, "false">>}
StepBreakpointRequests == {<<12, "">>, <<21, "">>}
RemovalBreakpointRequests == {<<11, "">>, <<12, "">>}

\* The controller sends its commands before the program starts and while
\* the program is paused in a break report.
Alive == mode = "paused" \/ (mode = "running" /\ Len(stack) = 1 /\ Top.pc = 0)

CancelSession == NoSession

DoSetBreakPointForScript(condition, source_position, max_id) ==
  /\ Alive
  /\ thread_local_.last_breakpoint_id_ < max_id
  /\ SetW(SetBreakPointForScript(W, condition, source_position))
  /\ last_event' = Event("SetBreakPointForScript", "main", source_position,
                         0, SetBreakPointForScript(W, condition,
                                                   source_position),
                         condition)
  /\ session' = CancelSession
  /\ UNCHANGED <<prog_vars, iter_vars, patch_prev, storage, tracker, thread_ids>>

DoRemoveBreakpoint(id) ==
  /\ Alive
  /\ id \in 1..thread_local_.last_breakpoint_id_
  /\ \E fn \in Funcs :
       FindBreakPointInfo(debug_infos[fn].break_points, id, 1) # 0
  /\ SetW(RemoveBreakpoint(W, id))
  /\ last_event' = Event("RemoveBreakpoint", "main", id, 0, W, "")
  /\ session' = CancelSession
  /\ UNCHANGED <<prog_vars, iter_vars, patch_prev, storage, tracker, thread_ids>>

DoInstallCoverageInfo(fn) ==
  /\ Alive
  /\ ~debug_infos[fn].has_coverage_info
  /\ SetW(InstallCoverageInfo(W, fn))
  /\ last_event' = Event("InstallCoverageInfo", fn, 0, 0, W, "")
  /\ UNCHANGED <<prog_vars, session, iter_vars, patch_prev, storage, tracker, thread_ids>>

\* Debug::set_break_points_active, before the program starts.
DoSetBreakPointsActive(active) ==
  /\ mode = "running" /\ Len(stack) = 1 /\ Top.pc = 0
  /\ debug_flags.break_points_active_ # active
  /\ debug_flags' = [debug_flags EXCEPT !.break_points_active_ = active]
  /\ last_event' = Event("set_break_points_active", "main", 0, 0, W, "")
  /\ UNCHANGED <<thread_local_, hook_on_function_call_, debug_info_list_,
                 debug_infos, break_point_objects, debug_scopes, prog_vars,
                 session, iter_vars, patch_prev, storage, tracker, thread_ids>>

DoSetBreakOnNextFunctionCall ==
  /\ Alive
  /\ ~thread_local_.break_on_next_function_call_
  /\ SetW(SetBreakOnNextFunctionCall(W))
  /\ last_event' = Event("SetBreakOnNextFunctionCall", "main", 0, 0, W, "")
  /\ session' = CancelSession
  /\ UNCHANGED <<prog_vars, iter_vars, patch_prev, storage, tracker, thread_ids>>

\* The stepping specification: every step request, break-on-next-call, and
\* unconditional break points.
Next ==
  \/ BreakArrive
  \/ \E resp \in {"continue"} \cup StepActions : Resume(resp)
  \/ ExecutePlain
  \/ \E x \in ArgValues \cup {0} : ExecuteCall(x)
  \/ ExecuteResume
  \/ ExecuteLeave
  \/ \E req \in StepBreakpointRequests :
       DoSetBreakPointForScript(req[2], req[1], MaxStepBreakpointId)
  \/ \E id \in 1..MaxStepBreakpointId : DoRemoveBreakpoint(id)
  \/ DoSetBreakOnNextFunctionCall

Spec == Init /\ [][Next]_vars

\* The break point specification: conditional break points, their removal
\* and coverage info, with the program resumed or stepped over.
NextBp ==
  \/ BreakArrive
  \/ \E resp \in {"continue", StepOver} : Resume(resp)
  \/ ExecutePlain
  \/ \E x \in ArgValues \cup {0} : ExecuteCall(x)
  \/ ExecuteResume
  \/ ExecuteLeave
  \/ \E req \in BreakpointRequests :
       DoSetBreakPointForScript(req[2], req[1], MaxBreakpointId)
  \/ \E id \in 1..MaxBreakpointId : DoRemoveBreakpoint(id)
  \/ \E active \in BOOLEAN : DoSetBreakPointsActive(active)

SpecBp == Init /\ [][NextBp]_vars

\* The removal specification: unconditional break points at the statements
\* of f, their removal and coverage info, with the program resumed or
\* stepped over (a step computes the blackbox hint of the functions it
\* floods).
NextRm ==
  \/ BreakArrive
  \/ \E resp \in {"continue", StepOver} : Resume(resp)
  \/ ExecutePlain
  \/ \E x \in ArgValues \cup {0} : ExecuteCall(x)
  \/ ExecuteResume
  \/ ExecuteLeave
  \/ \E req \in RemovalBreakpointRequests :
       DoSetBreakPointForScript(req[2], req[1], MaxBreakpointId)
  \/ \E id \in 1..MaxBreakpointId : DoRemoveBreakpoint(id)
  \/ \E fn \in {"f"} : DoInstallCoverageInfo(fn)

SpecRm == Init /\ [][NextRm]_vars

\* ------------------------------------------------------------------------
\* The lifecycle specification: the DebugInfo records under every operation
\* that creates, fills, clears or frees them.  The controller sets break
\* points that succeed and that fail, asks for debugging ids, installs and
\* removes coverage info, detaches and attaches the delegate, and evaluates
\* expressions with side effect checks while the program is paused.
\* ------------------------------------------------------------------------
\* Position 71 (in lazy) cannot take a break point.
InfoBreakpointRequests == {<<11, "">>, <<81, "">>, <<71, "">>}
InfoCheckedFunctions == {"s", "r"}

Attached == debug_flags.debug_delegate_
Evaluating == debug_flags.debug_execution_mode = "kSideEffects"

DoSetBreakpointForFunction(fn, condition, max_id) ==
  /\ Alive
  /\ thread_local_.last_breakpoint_id_ < max_id
  /\ SetW(SetBreakpointForFunction(W, fn, condition))
  /\ last_event' = Event("SetBreakpointForFunction", fn, 0, 0,
                         SetBreakpointForFunction(W, fn, condition),
                         condition)
  /\ session' = CancelSession
  /\ UNCHANGED <<prog_vars, iter_vars, patch_prev, storage, tracker, thread_ids>>

DoGetFunctionDebuggingId(fn) ==
  /\ Alive
  /\ debug_infos[fn].debugging_id = 0
  /\ SetW(GetFunctionDebuggingId(W, fn))
  /\ last_event' = Event("GetFunctionDebuggingId", fn, 0, 0, W, "")
  /\ UNCHANGED <<prog_vars, session, iter_vars, patch_prev, storage, tracker, thread_ids>>

DoRemoveAllCoverageInfos ==
  /\ Alive
  /\ \E fn \in Funcs : debug_infos[fn].has_coverage_info
  /\ SetW(RemoveAllCoverageInfos(W))
  /\ last_event' = Event("RemoveAllCoverageInfos", "main", 0, 0, W, "")
  /\ UNCHANGED <<prog_vars, session, iter_vars, patch_prev, storage, tracker, thread_ids>>

DoSetDebugDelegate(delegate) ==
  /\ Alive
  /\ debug_flags.debug_delegate_ # delegate
  /\ SetW(SetDebugDelegate(W, delegate))
  /\ last_event' = Event("SetDebugDelegate", "main", 0, 0, W,
                         IF delegate THEN "delegate" ELSE "nullptr")
  /\ session' = CancelSession
  /\ UNCHANGED <<prog_vars, iter_vars, patch_prev, storage, tracker, thread_ids>>

\* DebugEvaluate with throw_on_side_effect, while the program is paused:
\* the mode is started, the functions the expression calls are checked,
\* its stores are checked, and the mode is stopped.
DoStartSideEffectCheckMode ==
  /\ mode = "paused" /\ ~Evaluating
  /\ SetW(StartSideEffectCheckMode(W))
  /\ last_event' = Event("StartSideEffectCheckMode", Top.fn, Top.pc,
                         Len(stack), W, "")
  /\ UNCHANGED <<prog_vars, session, iter_vars, patch_prev, storage, tracker, thread_ids>>

DoPerformSideEffectCheck(fn) ==
  /\ mode = "paused" /\ Evaluating
  /\ ~debug_flags.has_pending_exception
  /\ SetW(PerformSideEffectCheck(W, fn))
  /\ last_event' = Event("PerformSideEffectCheck", fn, 0, Len(stack),
                         PerformSideEffectCheck(W, fn), "")
  /\ UNCHANGED <<prog_vars, session, iter_vars, patch_prev, storage, tracker, thread_ids>>

\* A store patched by the side effect checks is executed.
DoPerformSideEffectCheckAtBytecode(temporary) ==
  /\ mode = "paused" /\ Evaluating
  /\ ~debug_flags.has_pending_exception
  /\ debug_infos["s"].exists
  /\ debug_infos["s"].debug_execution_mode = "kSideEffects"
  /\ SetW(PerformSideEffectCheckForObject(W, temporary))
  /\ last_event' = Event("PerformSideEffectCheckAtBytecode", "s", 1,
                         Len(stack),
                         PerformSideEffectCheckForObject(W, temporary), "")
  /\ UNCHANGED <<prog_vars, session, iter_vars, patch_prev, storage, tracker, thread_ids>>

\* The evaluation returns; its caller takes the exception it threw.
DoStopSideEffectCheckMode ==
  /\ mode = "paused" /\ Evaluating
  /\ LET w == StopSideEffectCheckMode(W)
     IN  /\ SetW([w EXCEPT !.pending = FALSE, !.exception = "none"])
         /\ last_event' = Event("StopSideEffectCheckMode", Top.fn, Top.pc,
                                Len(stack), w, w.exception)
  /\ UNCHANGED <<prog_vars, session, iter_vars, patch_prev, storage, tracker, thread_ids>>

\* The lifecycle specification follows the program from its start through
\* the call of f by main.
InfoWindow ==
  /\ Len(stack) >= 1
  /\ \/ stack[1].pc = 0
     \/ /\ stack[1].pc \in DOMAIN CallTarget["main"]
        /\ CallTarget["main"][stack[1].pc] = "f"

NextInfo ==
  \/ InfoWindow /\ BreakArrive
  \/ InfoWindow /\ ~Evaluating
       /\ \E resp \in {"continue", StepOver} : Resume(resp)
  \/ InfoWindow /\ ExecutePlain
  \/ InfoWindow /\ \E x \in ArgValues \cup {0} : ExecuteCall(x)
  \/ InfoWindow /\ ExecuteLeave
  \/ /\ InfoWindow /\ Attached /\ ~Evaluating
     /\ \E req \in InfoBreakpointRequests :
          DoSetBreakPointForScript(req[2], req[1], MaxStepBreakpointId)
  \/ /\ InfoWindow /\ Attached /\ ~Evaluating
     /\ \E id \in 1..MaxStepBreakpointId : DoRemoveBreakpoint(id)
  \/ InfoWindow /\ ~Evaluating /\ \E fn \in {"f"} : DoInstallCoverageInfo(fn)
  \/ InfoWindow /\ ~Evaluating /\ DoRemoveAllCoverageInfos
  \/ /\ InfoWindow /\ Attached /\ ~Evaluating
     /\ \E fn \in {"ext"} : DoGetFunctionDebuggingId(fn)
  \/ /\ InfoWindow /\ ~Evaluating
     /\ \E delegate \in BOOLEAN : DoSetDebugDelegate(delegate)
  \/ InfoWindow /\ Attached /\ DoStartSideEffectCheckMode
  \/ \E fn \in InfoCheckedFunctions : DoPerformSideEffectCheck(fn)
  \/ DoStopSideEffectCheckMode

SpecInfo == Init /\ [][NextInfo]_vars

\* ------------------------------------------------------------------------
\* The evaluation specification: while the program is paused at a break
\* point, expressions are evaluated in side effect check mode.  They call
\* s (needs runtime checks), r (has side effects), bb (has none) and lazy
\* (cannot be compiled), and they store to objects.
\* ------------------------------------------------------------------------
EvalBreakpointRequests == {<<11, "">>, <<81, "">>}
EvalCheckedFunctions == {"s", "r", "bb", "lazy"}

NextEval ==
  \/ InfoWindow /\ BreakArrive
  \/ InfoWindow /\ ~Evaluating /\ Resume("continue")
  \/ InfoWindow /\ ExecutePlain
  \/ InfoWindow /\ \E x \in ArgValues \cup {0} : ExecuteCall(x)
  \/ InfoWindow /\ ExecuteLeave
  \/ /\ ~Evaluating
     /\ \E req \in EvalBreakpointRequests :
          DoSetBreakPointForScript(req[2], req[1], MaxStepBreakpointId)
  \/ DoStartSideEffectCheckMode
  \/ \E fn \in EvalCheckedFunctions : DoPerformSideEffectCheck(fn)
  \/ \E temporary \in BOOLEAN : DoPerformSideEffectCheckAtBytecode(temporary)
  \/ DoStopSideEffectCheckMode

SpecEval == Init /\ [][NextEval]_vars

\* ------------------------------------------------------------------------
\* The mode specification: as the evaluation specification, and while side
\* effect check mode is active the controller also sets break points and
\* clears the stepping state (Debug::ClearStepping is called by the
\* controller and by HandleDebugBreak, for a pause request that arrives
\* during the evaluation).
\* ------------------------------------------------------------------------
DoClearStepping ==
  /\ mode = "paused"
  /\ SetW(ClearStepping(W))
  /\ last_event' = Event("ClearStepping", Top.fn, Top.pc, Len(stack), W, "")
  /\ session' = CancelSession
  /\ UNCHANGED <<prog_vars, iter_vars, patch_prev, storage, tracker, thread_ids>>

NextMode ==
  \/ InfoWindow /\ BreakArrive
  \/ InfoWindow /\ ~Evaluating /\ \E resp \in {"continue", StepInto} : Resume(resp)
  \/ InfoWindow /\ ExecutePlain
  \/ InfoWindow /\ \E x \in ArgValues \cup {0} : ExecuteCall(x)
  \/ InfoWindow /\ ExecuteLeave
  \/ \E req \in EvalBreakpointRequests :
       DoSetBreakPointForScript(req[2], req[1], MaxBreakpointId)
  \/ DoStartSideEffectCheckMode
  \/ \E fn \in {"s", "r"} : DoPerformSideEffectCheck(fn)
  \/ DoClearStepping
  \/ DoStopSideEffectCheckMode

SpecMode == Init /\ [][NextMode]_vars

\* ------------------------------------------------------------------------
\* The delegate specification: the whole program is run and stepped, with
\* break points, coverage info and debugging ids, while the controller
\* installs and removes the debug delegate.
\* ------------------------------------------------------------------------
\* Position 31 is in gen, before its first explicit suspend; position 7 is
\* main's second resumption of the generator.
DelegateBreakpointRequests == {<<31, "">>, <<7, "">>}

NextDelegate ==
  \/ BreakArrive
  \/ \E resp \in {"continue", StepOver, StepInto} : Resume(resp)
  \/ ExecutePlain
  \/ \E x \in ArgValues \cup {0} : ExecuteCall(x)
  \/ ExecuteResume
  \/ ExecuteLeave
  \/ /\ Attached
     /\ \E req \in DelegateBreakpointRequests :
          DoSetBreakPointForScript(req[2], req[1], MaxBreakpointId)
  \/ Attached /\ \E fn \in {"f"} : DoInstallCoverageInfo(fn)
  \/ Attached /\ \E fn \in {"ext"} : DoGetFunctionDebuggingId(fn)
  \/ \E delegate \in BOOLEAN : DoSetDebugDelegate(delegate)

SpecDelegate == Init /\ [][NextDelegate]_vars

\* ------------------------------------------------------------------------
\* The break point setting specification: requests that can and that cannot
\* be served, while main runs up to its call of f.  Position 11 is in f, 61
\* in ext (not subject to debugging), 71 in lazy (its compilation fails),
\* 95 in no function.
\* ------------------------------------------------------------------------
SetPositions == {11, 61, 71, 95}
SetFunctions == {"f", "ext", "lazy"}

NextSet ==
  \/ InfoWindow /\ BreakArrive
  \/ InfoWindow /\ Resume("continue")
  \/ InfoWindow /\ ExecutePlain
  \/ InfoWindow /\ \E x \in ArgValues \cup {0} : ExecuteCall(x)
  \/ InfoWindow /\ ExecuteLeave
  \/ \E source_position \in SetPositions :
       DoSetBreakPointForScript("", source_position, MaxBreakpointId)
  \/ \E fn \in SetFunctions :
       DoSetBreakpointForFunction(fn, "", MaxBreakpointId)
  \/ \E id \in 1..MaxBreakpointId : DoRemoveBreakpoint(id)

SpecSet == Init /\ [][NextSet]_vars

\* ------------------------------------------------------------------------
\* The thread specification: the program is run and stepped; once, its
\* thread gives up the isolate (ArchiveDebug), another
\* thread may step into a function of its own, and the thread comes back
\* (RestoreDebug).
\* ------------------------------------------------------------------------
\* The functions the other thread steps into.
OtherThreadFunctions == {"f", "k"}

\* The thread can give up the isolate at a stack check, on entry to a
\* function, and inside a call, which may run native code.
CanLeaveIsolate ==
  /\ mode = "running" /\ Len(stack) > 0
  /\ (Top.pc = 0 \/ Top.pc \in DOMAIN CallTarget[Top.fn])

\* ThreadManager archives the state of the thread that leaves.
DoArchiveDebug ==
  /\ CanLeaveIsolate
  /\ ~storage.written
  /\ storage' = ArchiveDebug(W)
  /\ mode' = "parked"
  /\ last_event' = Event("ArchiveDebug", Top.fn, Top.pc, Len(stack), W, "")
  /\ UNCHANGED <<dbg_vars, stack, generator, session, iter_vars, patch_prev, tracker,
               thread_ids>>

\* The other thread, paused in fn on a stack of its own, steps into.
DoOtherThreadSteps(fn) ==
  /\ mode = "parked" /\ last_event.op = "ArchiveDebug"
  /\ LET other == <<Frame(fn, 0, NoGenerator)>>
         w == PrepareStep(EnterDebugScope([W EXCEPT !.tl = ThreadInit],
                                          other), other, StepInto)
     IN  /\ SetW(LeaveDebugScope(w))
         /\ last_event' = Event("OtherThread", fn, 0, 1, w, StepInto)
  /\ UNCHANGED <<prog_vars, session, iter_vars, patch_prev, storage, tracker, thread_ids>>

\* ThreadManager restores the state of the thread that comes back.  The
\* event's depth is the frame RestoreDebug made the break frame (NO_ID when
\* it made none).
DoRestoreDebug ==
  /\ mode = "parked"
  /\ \E undefined \in IF RestoreWalkLeavesStack(W, stack, storage)
                      THEN RestoreOutcomes(stack) ELSE {NothingUndefined} :
       LET entered == RestoreDebugEnter(W, stack, storage)
           frame == IF entered.tl.last_step_action_ = StepNone THEN NO_ID
                    ELSE IF RestoreDebugFrame(entered, stack) = NO_ID
                    THEN undefined.id
                    ELSE RestoreDebugFrame(entered, stack)
       IN  IF undefined.crash
           THEN /\ SetW(entered)
                /\ mode' = "crashed"
                /\ last_event' = Event("RestoreDebug", Top.fn, Top.pc,
                                       NO_ID, entered, "crash")
           ELSE /\ SetW(RestoreDebug(W, stack, storage, undefined))
                /\ mode' = "running"
                /\ last_event' = Event("RestoreDebug", Top.fn, Top.pc,
                                       frame, entered,
                                       IF RestoreWalkLeavesStack(W, stack,
                                                                 storage)
                                       THEN "undefined" ELSE "")
  /\ UNCHANGED <<stack, generator, session, iter_vars, patch_prev, storage, tracker, thread_ids>>

\* The thread that holds the isolate is this one.
OnThread == mode # "parked"

NextThread ==
  \/ BreakArrive
  \/ \E resp \in {"continue"} \cup StepActions : Resume(resp)
  \/ ExecutePlain
  \/ \E x \in ArgValues \cup {0} : ExecuteCall(x)
  \/ ExecuteResume
  \/ ExecuteLeave
  \/ /\ OnThread
     /\ \E req \in StepBreakpointRequests :
          DoSetBreakPointForScript(req[2], req[1], MaxStepBreakpointId)
  \/ DoArchiveDebug
  \/ \E fn \in OtherThreadFunctions : DoOtherThreadSteps(fn)
  \/ DoRestoreDebug

SpecThread == Init /\ [][NextThread]_vars

\* ------------------------------------------------------------------------
\* The id specification: break points are set and removed by the thread of
\* the program and, while that thread is parked, by another thread.  What
\* the thread manager does to thread_local_ between ArchiveDebug and the
\* other thread's entry is not part of the debugger: the other thread finds
\* it as the parked thread left it, or initialised by ThreadInit when it
\* enters; from then on it goes on with its own counter.
\* ------------------------------------------------------------------------
DoOtherThreadSetsBreakPoint(source_position) ==
  /\ mode = "parked"
  /\ \E tl \in {thread_local_, ThreadInit} :
       /\ tl = ThreadInit => last_event.op = "ArchiveDebug"
       /\ tl.last_breakpoint_id_ < MaxBreakpointId
       /\ \E w \in {SetBreakPointForScript([W EXCEPT !.tl = tl], "",
                                          source_position)} :
            /\ SetW(w)
            /\ last_event' = Event("SetBreakPointForScript", "main",
                                   source_position, 0, w, "other thread")
  /\ UNCHANGED <<prog_vars, session, iter_vars, patch_prev, storage, tracker, thread_ids>>

NextIds ==
  \/ BreakArrive
  \/ \E resp \in {"continue"} : Resume(resp)
  \/ ExecutePlain
  \/ \E x \in {0, 3} : ExecuteCall(x)
  \/ ExecuteLeave
  \/ OnThread /\ DoSetBreakPointForScript("", 12, MaxBreakpointId)
  \/ OnThread /\ \E id \in 1..MaxBreakpointId : DoRemoveBreakpoint(id)
  \/ DoArchiveDebug
  \/ DoOtherThreadSetsBreakPoint(21)
  \/ DoRestoreDebug

SpecIds == Init /\ [][NextIds]_vars

\* ------------------------------------------------------------------------
\* The tracker specification: allocation reports of the mutator thread and
\* move reports of the collector's threads, one operation on objects_ at a
\* time, in every order.
\* ------------------------------------------------------------------------
DoAllocationEvent(addr) ==
  /\ tracker.at[Mutator].pc = "idle"
  /\ addr \notin InMove(tracker)
  /\ tracker' = AllocationEvent(tracker, addr)
  /\ UNCHANGED <<debug_vars, thread_ids>>

DoInsertBegin ==
  /\ tracker.at[Mutator].pc = "insert"
  /\ tracker' = InsertBegin(tracker)
  /\ UNCHANGED <<debug_vars, thread_ids>>

DoInsertEnd ==
  /\ tracker.at[Mutator].pc = "inserting"
  /\ \E undefined \in SUBSET Addresses :
       tracker' = InsertEnd(tracker, undefined)
  /\ UNCHANGED <<debug_vars, thread_ids>>

DoMoveEvent(t, from, to) ==
  /\ tracker.at[t].pc = "idle"
  /\ {from, to} \cap (InMove(tracker) \cup {tracker.at[Mutator].to}) = {}
  /\ tracker' = MoveEvent(tracker, t, from, to)
  /\ UNCHANGED <<debug_vars, thread_ids>>

DoMutexGuard(t) ==
  /\ tracker.at[t].pc = "lock"
  /\ tracker.mutex_ = ""
  /\ tracker' = MutexGuard(tracker, t)
  /\ UNCHANGED <<debug_vars, thread_ids>>

DoFind(t) ==
  /\ tracker.at[t].pc = "find"
  /\ \E undefined \in BOOLEAN : tracker' = Find(tracker, t, undefined)
  /\ UNCHANGED <<debug_vars, thread_ids>>

DoUpdate(t) ==
  /\ tracker.at[t].pc = "update"
  /\ \E undefined \in SUBSET Addresses :
       tracker' = Update(tracker, t, undefined)
  /\ UNCHANGED <<debug_vars, thread_ids>>

DoSetTemporaryObjectTrackingDisabled(disabled) ==
  /\ tracker.at[Mutator].pc = "idle"
  /\ tracker.disabled # disabled
  /\ tracker' = SetTemporaryObjectTrackingDisabled(tracker, disabled)
  /\ UNCHANGED <<debug_vars, thread_ids>>

NextTracker ==
  \/ \E addr \in Addresses : DoAllocationEvent(addr)
  \/ DoInsertBegin
  \/ DoInsertEnd
  \/ \E t \in CollectorThreads : \E from, to \in Addresses :
       DoMoveEvent(t, from, to)
  \/ \E t \in CollectorThreads : DoMutexGuard(t)
  \/ \E t \in CollectorThreads : DoFind(t)
  \/ \E t \in CollectorThreads : DoUpdate(t)
  \/ \E disabled \in BOOLEAN : DoSetTemporaryObjectTrackingDisabled(disabled)

SpecTracker == Init /\ [][NextTracker]_vars

\* ------------------------------------------------------------------------
\* The thread id specification: the threads call GetCurrentThreadId and
\* TryGetCurrent, one statement of one thread at a time, in every order.
\* ------------------------------------------------------------------------
Running(t) == ~thread_ids.aborted /\ thread_ids.at[t].call # "none"

DoCallThreadId(t, fn) ==
  /\ ~thread_ids.aborted /\ thread_ids.at[t].call = "none"
  /\ thread_ids.at[t].calls < MaxCalls
  /\ thread_ids' = CallThreadId(thread_ids, t, fn)
  /\ UNCHANGED <<debug_vars, tracker>>

DoTestKey(t) ==
  /\ Running(t) /\ thread_ids.at[t].pc = "test"
  /\ thread_ids' = TestKey(thread_ids, t)
  /\ UNCHANGED <<debug_vars, tracker>>

DoPthreadKeyCreate(t) ==
  /\ Running(t) /\ thread_ids.at[t].pc = "create"
  /\ thread_ids' = PthreadKeyCreate(thread_ids, t)
  /\ UNCHANGED <<debug_vars, tracker>>

DoPthreadGetspecific(t) ==
  /\ Running(t) /\ thread_ids.at[t].pc = "get"
  /\ thread_ids' = PthreadGetspecific(thread_ids, t)
  /\ UNCHANGED <<debug_vars, tracker>>

DoPthreadSetspecific(t) ==
  /\ Running(t) /\ thread_ids.at[t].pc = "set"
  /\ thread_ids' = PthreadSetspecific(thread_ids, t)
  /\ UNCHANGED <<debug_vars, tracker>>

DoFetchAdd(t) ==
  /\ Running(t) /\ thread_ids.at[t].pc = "fetch"
  /\ thread_ids' = FetchAdd(thread_ids, t)
  /\ UNCHANGED <<debug_vars, tracker>>

DoGetCurrentThreadId(t) ==
  /\ Running(t) /\ thread_ids.at[t].pc = "use"
  /\ thread_ids.at[t].call = "GetCurrentThreadId"
  /\ thread_ids' = GetCurrentThreadId(thread_ids, t)
  /\ UNCHANGED <<debug_vars, tracker>>

DoTryGetCurrent(t) ==
  /\ Running(t) /\ thread_ids.at[t].pc = "use"
  /\ thread_ids.at[t].call = "TryGetCurrent"
  /\ thread_ids' = TryGetCurrent(thread_ids, t)
  /\ UNCHANGED <<debug_vars, tracker>>

NextThreadId ==
  \/ \E t \in Threads : \E fn \in {"GetCurrentThreadId", "TryGetCurrent"} :
       DoCallThreadId(t, fn)
  \/ \E t \in Threads : DoTestKey(t)
  \/ \E t \in Threads : DoPthreadKeyCreate(t)
  \/ \E t \in Threads : DoPthreadGetspecific(t)
  \/ \E t \in Threads : DoPthreadSetspecific(t)
  \/ \E t \in Threads : DoFetchAdd(t)
  \/ \E t \in Threads : DoGetCurrentThreadId(t)
  \/ \E t \in Threads : DoTryGetCurrent(t)

SpecThreadId == Init /\ [][NextThreadId]_vars

\* ------------------------------------------------------------------------
\* The scope specification: while the program is paused in a break report,
\* further debugger entries nest DebugScopes inside the scope of the break,
\* and the controller asks for termination on resume.
\* ------------------------------------------------------------------------
\* The function and the offset an event of the debugger is recorded at.
EventFn == IF Len(stack) > 0 THEN stack[Len(stack)].fn ELSE "main"
EventPc == IF Len(stack) > 0 THEN stack[Len(stack)].pc ELSE 0

\* A debugger entry during the pause, or after the program has returned (no
\* frame is left): a DebugScope is constructed.
DoEnterDebugScope ==
  /\ mode \in {"paused", "done"} /\ Len(debug_scopes) < MaxDepth
  /\ SetW(EnterDebugScope(W, stack))
  /\ last_event' = Event("EnterDebugScope", EventFn, EventPc, Len(stack), W,
                         "")
  /\ UNCHANGED <<prog_vars, session, iter_vars, patch_prev, storage, tracker, thread_ids>>

\* The nested debugger entry returns: its DebugScope is destroyed.
DoLeaveDebugScope ==
  /\ \/ mode = "paused" /\ Len(debug_scopes) > 1
     \/ mode = "done" /\ Len(debug_scopes) > 0
  /\ SetW(LeaveDebugScope(W))
  /\ last_event' = Event("LeaveDebugScope", EventFn, EventPc, Len(stack), W,
                         "")
  /\ UNCHANGED <<prog_vars, session, iter_vars, patch_prev, storage, tracker, thread_ids>>

\* Debug::SetTerminateOnResume; without a current scope CHECK_NOT_NULL
\* aborts the process.
DoSetTerminateOnResume ==
  /\ mode \in {"running", "paused", "done"}
  /\ IF in_debug_scope(W)
     THEN /\ SetW(SetTerminateOnResume(W))
          /\ mode' = mode
          /\ last_event' = Event("SetTerminateOnResume", "main", 0,
                                 Len(stack), W, "")
     ELSE /\ UNCHANGED dbg_vars
          /\ mode' = "crashed"
          /\ last_event' = Event("SetTerminateOnResume", "main", 0,
                                 Len(stack), W, "CHECK failed")
  /\ UNCHANGED <<stack, generator, session, iter_vars, patch_prev, storage, tracker, thread_ids>>

\* The controller calls PrepareStep inside a debugger entry, without resuming
\* the program.
DoPrepareStep(step_action) ==
  /\ mode \in {"paused", "done"} /\ in_debug_scope(W)
  /\ SetW(PrepareStep(W, stack, step_action))
  /\ last_event' = Event("PrepareStep", EventFn, EventPc, Len(stack), W,
                         step_action)
  /\ UNCHANGED <<prog_vars, session, iter_vars, patch_prev, storage, tracker, thread_ids>>

\* No termination is requested: the stack guard lets the program run and
\* the debugger be entered.
NotTerminating == ~debug_flags.terminate_execution_requested

\* The break report returns when the nested entries have returned.
OutermostScope == Len(debug_scopes) = 1

NextScope ==
  \/ NotTerminating /\ BreakArrive
  \/ OutermostScope /\ \E resp \in {"continue", StepOver} : Resume(resp)
  \/ NotTerminating /\ ExecutePlain
  \/ NotTerminating /\ \E x \in ArgValues \cup {0} : ExecuteCall(x)
  \/ NotTerminating /\ ExecuteResume
  \/ NotTerminating /\ ExecuteLeave
  \/ /\ NotTerminating
     /\ \E req \in StepBreakpointRequests :
          DoSetBreakPointForScript(req[2], req[1], MaxStepBreakpointId)
  \/ NotTerminating /\ DoEnterDebugScope
  \/ DoLeaveDebugScope
  \/ DoSetTerminateOnResume

SpecScope == Init /\ [][NextScope]_vars

\* ------------------------------------------------------------------------
\* The muted location specification: conditional break points on the two
\* break locations of r's first statement (its entry and its call), and the
\* query whether the top frame is at a muted location.
\* ------------------------------------------------------------------------
MutedBreakpointRequests ==
  {<<21, "">>, <<21, "false">>, <<22, "">>, <<22, "false">>, <<22, "throw">>,
   <<23, "false">>}

\* Debug::IsMutedAtCurrentLocation on the top frame (as HandleDebugBreak and
\* OnException call it); the event's result is the answer.
DoIsMutedAtCurrentLocation ==
  /\ mode = "running" /\ Len(stack) > 0
  /\ LET r == IsMutedAtCurrentLocation(W, stack, Top)
     IN  /\ SetW(r.w)
         /\ last_event' = Event("IsMutedAtCurrentLocation", Top.fn, Top.pc,
                                Len(stack), [r.w EXCEPT !.result = r.muted],
                                "")
  /\ UNCHANGED <<prog_vars, session, iter_vars, patch_prev, storage, tracker, thread_ids>>

\* The program up to the return of main's call of r.
MutedWindow == Len(stack) >= 1 /\ stack[1].pc <= 2

NextMuted ==
  \/ MutedWindow /\ BreakArrive
  \/ MutedWindow /\ Resume("continue")
  \/ MutedWindow /\ ExecutePlain
  \/ MutedWindow /\ \E x \in ArgValues \cup {0} : ExecuteCall(x)
  \/ MutedWindow /\ ExecuteLeave
  \/ \E req \in MutedBreakpointRequests :
       DoSetBreakPointForScript(req[2], req[1], MaxBreakpointId)
  \/ \E active \in BOOLEAN : DoSetBreakPointsActive(active)
  \/ DoIsMutedAtCurrentLocation

SpecMuted == Init /\ [][NextMuted]_vars

\* ------------------------------------------------------------------------
\* The no-stack specification: the program is stepped until it has returned;
\* then the debugger is entered with no JavaScript frame on the stack and
\* the controller asks for a step.
\* ------------------------------------------------------------------------
\* The program has returned: no frame is left.
NoStack == mode = "done"

NextNoStack ==
  \/ BreakArrive
  \/ \E resp \in {"continue", StepOver, StepOut} : Resume(resp)
  \/ ExecutePlain
  \/ \E x \in ArgValues \cup {0} : ExecuteCall(x)
  \/ ExecuteResume
  \/ ExecuteLeave
  \/ \E req \in StepBreakpointRequests :
       DoSetBreakPointForScript(req[2], req[1], MaxStepBreakpointId)
  \/ NoStack /\ ~in_debug_scope(W) /\ DoEnterDebugScope
  \/ NoStack /\ DoLeaveDebugScope
  \/ NoStack /\ \E step_action \in StepActions : DoPrepareStep(step_action)

SpecNoStack == Init /\ [][NextNoStack]_vars

\* ------------------------------------------------------------------------
\* The hit specification: break points in the body of f and at the return of
\* r, where the delegate asks to skip while stepping, and
\* break-on-next-function-call, with every step request.
\* ------------------------------------------------------------------------
HitBreakpointRequests == {<<12, "">>, <<23, "">>}

NextHit ==
  \/ BreakArrive
  \/ \E resp \in {"continue"} \cup StepActions : Resume(resp)
  \/ ExecutePlain
  \/ \E x \in ArgValues \cup {0} : ExecuteCall(x)
  \/ ExecuteResume
  \/ ExecuteLeave
  \/ \E req \in HitBreakpointRequests :
       DoSetBreakPointForScript(req[2], req[1], MaxStepBreakpointId)
  \/ DoSetBreakOnNextFunctionCall

SpecHit == Init /\ [][NextHit]_vars

\* ------------------------------------------------------------------------
\* The tail specification: the program is t, one statement whose calls and
\* return share the statement position; t calls r, the blackboxed bb and the
\* API function api.  A break point on t's statement, one with a false
\* condition on the call of bb, a break point at the entry of api with no
\* condition or a false one, with every step request.
\* ------------------------------------------------------------------------
TailBreakpointRequests == {<<91, "">>, <<93, "false">>}

InitTail ==
  /\ DebugInit
  /\ stack = <<Frame("t", 0, NoGenerator)>>
  /\ generator = [state |-> "none", resume_pc |-> 0]
  /\ mode = "running"
  /\ last_event = NoEvent
  /\ session = NoSession
  /\ IterIdle
  /\ patch_prev = << >>
  /\ storage = NoStorage
  /\ tracker = NewTemporaryObjectsTracker
  /\ thread_ids = InitialThreadIds

NextTail ==
  \/ BreakArrive
  \/ BreakAtEntryArrive
  \/ \E resp \in {"continue"} \cup StepActions : Resume(resp)
  \/ ExecutePlain
  \/ \E x \in {0} : ExecuteCall(x)
  \/ ExecuteNativeCall
  \/ ExecuteLeave
  \/ \E req \in TailBreakpointRequests :
       DoSetBreakPointForScript(req[2], req[1], MaxStepBreakpointId)
  \/ \E condition \in {"", "false"} :
       DoSetBreakpointForFunction("api", condition, MaxBreakpointId)
  \/ DoSetBreakOnNextFunctionCall

SpecTail == InitTail /\ [][NextTail]_vars

\* ------------------------------------------------------------------------
\* The preparation specification: the program t with a break point on its
\* statement and one at the entry of api, their removal, stepping, and the
\* delegate being removed (Unload) and installed again.
\* ------------------------------------------------------------------------
NextPrepared ==
  \/ BreakArrive
  \/ BreakAtEntryArrive
  \/ \E resp \in {"continue", StepInto, StepOut} : Resume(resp)
  \/ ExecutePlain
  \/ \E x \in {0} : ExecuteCall(x)
  \/ ExecuteNativeCall
  \/ ExecuteLeave
  \/ DoSetBreakPointForScript("", 91, MaxBreakpointId)
  \/ DoSetBreakpointForFunction("api", "", MaxBreakpointId)
  \/ \E id \in 1..MaxBreakpointId : DoRemoveBreakpoint(id)
  \/ \E delegate \in BOOLEAN : DoSetDebugDelegate(delegate)

SpecPrepared == InitTail /\ [][NextPrepared]_vars

\* ------------------------------------------------------------------------
\* The stack walk specification: PrepareStep on drawn stacks.  The debugger
\* was entered in the top frame, a frame of unoptimized code; a caller frame
\* may be a frame of optimized code with one function inlined into another.
\* Of the caller frames PrepareStep reads only the functions.
\* ------------------------------------------------------------------------
MaxWalkCallers == 2
WalkCallerFunctions == {"main", "r", "bb", "ext"}
WalkInlinedInto == {"main", "bb"}

WalkCallerFrames ==
  {[Frame(fn, 0, NoGenerator) EXCEPT !.inlined = inlined] :
     fn \in WalkCallerFunctions,
     inlined \in {<< >>} \cup {<<outer>> : outer \in WalkInlinedInto}}

\* The frame the debugger was entered in: at the return of f, at the first
\* statement of f, in the blackboxed bb, at the second suspend of gen.
WalkTopFrames ==
  {[Frame(at[1], 0, NoGenerator) EXCEPT !.pc = at[2]] :
     at \in {<<"f", 3>>, <<"f", 0>>, <<"bb", 0>>, <<"gen", 2>>}}

WalkStacks ==
  {Append(callers, top) :
     callers \in UNION {[1..n -> WalkCallerFrames] : n \in 0..MaxWalkCallers},
     top \in WalkTopFrames}

InitWalk ==
  /\ stack \in WalkStacks
  /\ IsW(EnterDebugScope(InitialW, stack))
  /\ generator = [state |-> "none", resume_pc |-> 0]
  /\ mode = "paused"
  /\ last_event = NoEvent
  /\ session = NoSession
  /\ IterIdle
  /\ patch_prev = << >>
  /\ storage = NoStorage
  /\ tracker = NewTemporaryObjectsTracker
  /\ thread_ids = InitialThreadIds

NextWalk == \E step_action \in StepActions : DoPrepareStep(step_action)

SpecWalk == InitWalk /\ [][NextWalk]_vars

\* ------------------------------------------------------------------------
\* The exit specification: every step request at returns and at generator
\* suspends, reached by stepping or by a break point on gen's second suspend
\* or on f's return.
\* ------------------------------------------------------------------------
ExitBreakpointRequests == {<<32, "">>, <<13, "">>}

NextExit ==
  \/ BreakArrive
  \/ \E resp \in {"continue"} \cup StepActions : Resume(resp)
  \/ ExecutePlain
  \/ \E x \in ArgValues \cup {0} : ExecuteCall(x)
  \/ ExecuteResume
  \/ ExecuteLeave
  \/ \E req \in ExitBreakpointRequests :
       DoSetBreakPointForScript(req[2], req[1], MaxStepBreakpointId)

SpecExit == Init /\ [][NextExit]_vars

\* ------------------------------------------------------------------------
\* The nested specification: the code a delegate callback runs reaches
\* patched bytecode, calls functions and throws while the break report or
\* the exception report is under way; the program throws in f (uncaught)
\* and in the getter r (caught by main).
\* ------------------------------------------------------------------------
\* The patched bytecodes: <<function, code offset>>.
PatchedLocations ==
  UNION {{<<fn, pc>> : pc \in {o \in 0..(Len(OriginalBytecode[fn]) - 1) :
                                  IsDebugBreak(ActiveByte(fn, o))}} :
         fn \in Funcs}

\* What the code run by a callback can do in the current state.
NestedArrivals ==
  {[kind |-> "break", fn |-> loc[1], pc |-> loc[2]] : loc \in PatchedLocations}
    \cup {[kind |-> "call", fn |-> "f", pc |-> 0]}
NestedOperations ==
  NestedArrivals \cup {NoNestedOperation,
                       [kind |-> "step", fn |-> "main", pc |-> 0]}

\* During the break report (the program is paused inside Break) the code
\* the callback runs dispatches a patched bytecode or calls a function.
CallbackRuns ==
  /\ mode = "paused"
  /\ \E nested \in NestedArrivals :
       \E w \in {NestedOperation(W, stack, nested)} :
         /\ SetW(w)
         /\ last_event' = Event("Nested", nested.fn, nested.pc,
                                Len(stack) + 1, w, nested.kind)
  /\ UNCHANGED <<prog_vars, session, iter_vars, patch_prev, storage, tracker, thread_ids>>

\* During the break report the code the callback runs throws.
CallbackThrows ==
  /\ mode = "paused"
  /\ \E w \in {OnThrow(W, stack, NoNestedOperation)} :
       /\ SetW(w)
       /\ last_event' = Event("NestedThrow", Top.fn, Top.pc, Len(stack) + 1,
                              w, "")
  /\ UNCHANGED <<prog_vars, session, iter_vars, patch_prev, storage, tracker, thread_ids>>

\* Debug::ChangeBreakOnException, before the program starts.
DoChangeBreakOnException(type, enable) ==
  /\ mode = "running" /\ Len(stack) = 1 /\ Top.pc = 0
  /\ ChangeBreakOnException(W, type, enable) # W
  /\ SetW(ChangeBreakOnException(W, type, enable))
  /\ last_event' = Event("ChangeBreakOnException", "main", 0, 0, W, type)
  /\ UNCHANGED <<prog_vars, session, iter_vars, patch_prev, storage, tracker, thread_ids>>

\* Isolate::Throw: Debug::OnThrow runs, the delegate's ExceptionThrown doing
\* one nested operation; then the stack is unwound to the handler, or the
\* program ends (no handler, or the termination was requested).
ThrowArrive ==
  /\ CanExecute
  /\ <<Top.fn, Top.pc>> \in ThrowSites
  /\ \E nested \in NestedOperations :
       \E w \in {OnThrow(W, stack, nested)} :
         /\ SetW([w EXCEPT !.terminate_requested = FALSE])
         /\ last_event' = Event("Throw", Top.fn, Top.pc, Len(stack), w,
                                nested.kind)
         /\ IF w.terminate_requested \/ Uncaught(stack)
            THEN stack' = << >> /\ mode' = "done"
            ELSE /\ stack' =
                      [SubSeq(stack, 1, HandlerFrame(stack, Len(stack)))
                         EXCEPT ![HandlerFrame(stack, Len(stack))].pc =
                                    LookupExceptionHandlerInTable(
                                      stack[HandlerFrame(stack, Len(stack))]),
                                ![HandlerFrame(stack, Len(stack))].broke =
                                    FALSE]
                 /\ mode' = mode
  /\ UNCHANGED <<generator, session, iter_vars, patch_prev, storage, tracker, thread_ids>>

NextNested ==
  \/ BreakArrive
  \/ \E resp \in {"continue", StepInto} : Resume(resp)
  \/ ExecutePlain
  \/ \E x \in {0, 3} : ExecuteCall(x)
  \/ ExecuteLeave
  \/ \E req \in StepBreakpointRequests :
       DoSetBreakPointForScript(req[2], req[1], MaxStepBreakpointId)
  \/ DoPrepareStep(StepInto)
  \/ CallbackRuns
  \/ CallbackThrows
  \/ \E type \in {"BreakException", "BreakUncaughtException"} :
       DoChangeBreakOnException(type, TRUE)
  \/ ThrowArrive

SpecNested == Init /\ [][NextNested]_vars

\* ------------------------------------------------------------------------
\* The iterator specification: BreakIterator queries on drawn functions.
\* A drawn function has up to MaxLocs source position entries, one bytecode
\* each, with positions 0..MaxPos in any order (loops put smaller positions
\* at greater offsets); its last bytecode is the Return.
\* ------------------------------------------------------------------------
ItTables ==
  UNION {{[bytes |-> [i \in 1..n |-> IF i = n THEN "Return" ELSE "Ldar"],
           positions |-> ps,
           statements |-> [i \in 1..n |-> IF i = n THEN TRUE ELSE st[i]]] :
            ps \in [1..n -> 0..MaxPos], st \in [1..(n - 1) -> BOOLEAN]} :
         n \in 1..MaxLocs}

ItSourcePositionTable ==
  [i \in DOMAIN it_table.positions |->
     Entry(i - 1, it_table.positions[i], it_table.statements[i])]

\* The break locations of the drawn function.
ItLocations == BreakIterator(it_table.bytes, ItSourcePositionTable, 0)

InitIter ==
  /\ DebugInit
  /\ stack = <<Frame("main", 0, NoGenerator)>>
  /\ generator = [state |-> "none", resume_pc |-> 0]
  /\ mode = "running"
  /\ last_event = NoEvent
  /\ session = NoSession
  /\ it_table \in ItTables
  /\ it_arg \in 0..(MaxPos + 1)
  /\ it_result = -1
  /\ it_query = "none"
  /\ patch_prev = << >>
  /\ storage = NoStorage
  /\ tracker = NewTemporaryObjectsTracker
  /\ thread_ids = InitialThreadIds

\* BreakIterator it(debug_info); it.SkipToPosition(it_arg); it.break_index().
QuerySkipToPosition ==
  /\ it_query = "none"
  /\ it_result' = SkipToPosition(ItLocations, it_arg)
  /\ it_query' = "SkipToPosition"
  /\ UNCHANGED <<dbg_vars, prog_vars, last_event, session, it_table, it_arg,
                 patch_prev, storage, tracker, thread_ids>>

\* BreakLocation::BreakIndexFromCodeOffset(debug_info, code, it_arg), for a
\* code offset of the function (DCHECK(0 <= offset && offset < Size())).
QueryBreakIndexFromCodeOffset ==
  /\ it_query = "none"
  /\ it_arg < Len(it_table.bytes)
  /\ it_result' = BreakIndexFromCodeOffset(ItLocations, it_arg)
  /\ it_query' = "BreakIndexFromCodeOffset"
  /\ UNCHANGED <<dbg_vars, prog_vars, last_event, session, it_table, it_arg,
                 patch_prev, storage, tracker, thread_ids>>

NextIter == QuerySkipToPosition \/ QueryBreakIndexFromCodeOffset

SpecIter == InitIter /\ [][NextIter]_vars

\* ------------------------------------------------------------------------
\* The patch specification: SetDebugBreak and ClearDebugBreak at the break
\* locations of k, whose DebugInfo has break info and a debug bytecode copy.
\* ------------------------------------------------------------------------
InitPatch ==
  /\ IsW(PrepareFunctionForDebugExecution(EnsureBreakInfo(InitialW, "k"),
                                          "k"))
  /\ stack = <<Frame("main", 0, NoGenerator)>>
  /\ generator = [state |-> "none", resume_pc |-> 0]
  /\ mode = "running"
  /\ last_event = NoEvent
  /\ session = NoSession
  /\ IterIdle
  /\ patch_prev = << >>
  /\ storage = NoStorage
  /\ tracker = NewTemporaryObjectsTracker
  /\ thread_ids = InitialThreadIds

\* BreakIterator::SetDebugBreak with the iterator at break location i of k.
\* patch_prev keeps the debug bytecode as it was before the call; the event
\* tells whether the call follows a SetDebugBreak at that location.
DoSetDebugBreak(i) ==
  /\ i \in 1..Len(Locations("k"))
  /\ patch_prev' = debug_infos["k"].debug_bytecode
  /\ debug_infos' = [debug_infos EXCEPT !["k"].debug_bytecode =
                       SetDebugBreak(OriginalBytecode["k"], @,
                                     Locations("k")[i])]
  /\ last_event' = Event("SetDebugBreak", "k",
                         Locations("k")[i].code_offset, 0, W,
                         IF last_event.op = "SetDebugBreak"
                            /\ last_event.pc = Locations("k")[i].code_offset
                         THEN "after SetDebugBreak" ELSE "")
  /\ UNCHANGED <<thread_local_, hook_on_function_call_, debug_info_list_,
                 break_point_objects, debug_scopes, debug_flags, prog_vars,
                 session, iter_vars, storage, tracker, thread_ids>>

\* BreakIterator::ClearDebugBreak with the iterator at break location i of
\* k; the event tells whether it follows a SetDebugBreak or a ClearDebugBreak
\* at that location.
DoClearDebugBreak(i) ==
  /\ i \in 1..Len(Locations("k"))
  /\ debug_infos' = [debug_infos EXCEPT !["k"].debug_bytecode =
                       ClearDebugBreak(OriginalBytecode["k"], @,
                                       Locations("k")[i])]
  /\ last_event' = Event("ClearDebugBreak", "k",
                         Locations("k")[i].code_offset, 0, W,
                         IF last_event.op = "SetDebugBreak"
                            /\ last_event.pc = Locations("k")[i].code_offset
                         THEN "after SetDebugBreak"
                         ELSE IF last_event.op = "ClearDebugBreak"
                                 /\ last_event.pc
                                      = Locations("k")[i].code_offset
                         THEN "after ClearDebugBreak" ELSE "")
  /\ UNCHANGED <<thread_local_, hook_on_function_call_, debug_info_list_,
                 break_point_objects, debug_scopes, debug_flags, prog_vars,
                 session, iter_vars, patch_prev, storage, tracker, thread_ids>>

NextPatch ==
  \/ \E i \in 1..Len(Locations("k")) : DoSetDebugBreak(i)
  \/ \E i \in 1..Len(Locations("k")) : DoClearDebugBreak(i)

SpecPatch == InitPatch /\ [][NextPatch]_vars

\* ------------------------------------------------------------------------
\* Properties.
\* ------------------------------------------------------------------------
\* Debug::Break is entered for the top frame by the step being taken.
BreakEntered ==
  /\ BreakPending /\ ~debug_flags.break_disabled_
  /\ last_event'.op = "Break"

\* Every OnDebugBreak call of the step reported a break point hit.
OnlyBreakPointReports ==
  \A i \in DOMAIN last_event'.notify : last_event'.notify[i].hit # << >>

\* Every OnDebugBreak call of the step was a step report, with no break
\* point hit.
OnlyStepReports ==
  \A i \in DOMAIN last_event'.notify : last_event'.notify[i].hit = << >>

\* C1 as stated: after the controller's PrepareStep(StepOver) or
\* PrepareStep(StepOut) recorded target_frame_count_ = N, a Break() that
\* arrives in a frame deeper than N with no break point hit never calls
\* OnDebugBreak.
C1_NoReportDeeperThanRecordedTarget ==
  [][(/\ BreakEntered
      /\ session.request \in {StepOver, StepOut}
      /\ thread_local_.target_frame_count_ >= 0
      /\ Len(stack) > thread_local_.target_frame_count_)
     => OnlyBreakPointReports]_vars

\* C1 amended: while last_step_action() is StepOver or StepOut and
\* break-on-next-function-call is not armed, a Break() that arrives in a
\* frame deeper than target_frame_count_ calls OnDebugBreak only for a break
\* point hit, and otherwise returns with the debugger state unchanged and
\* the program running.
C1_DeeperBreakIsIgnoredWhileSteppingOverOrOut ==
  [][(/\ BreakEntered
      /\ thread_local_.last_step_action_ \in {StepOver, StepOut}
      /\ ~thread_local_.break_on_next_function_call_
      /\ Len(stack) > thread_local_.target_frame_count_)
     => /\ OnlyBreakPointReports
        /\ (last_event'.notify = << >>
              => UNCHANGED dbg_vars /\ mode' = "running")]_vars

\* C1 witness: Break() has just returned silently in a recursive frame of r
\* deeper than the target frame of a StepOver.
C1_Witness ==
  /\ last_event.op = "Break" /\ last_event.notify = << >>
  /\ mode = "running" /\ Top.broke
  /\ thread_local_.last_step_action_ = StepOver
  /\ thread_local_.target_frame_count_ >= 1
  /\ Len(stack) > thread_local_.target_frame_count_
  /\ Top.fn = "r"
  /\ stack[thread_local_.target_frame_count_].fn = "r"

\* The code offsets of fn whose byte in the debug bytecode is a debug break.
PatchedOffsets(fn) ==
  {offset \in 0..(Len(debug_infos[fn].debug_bytecode) - 1) :
     IsDebugBreak(ByteAt(debug_infos[fn].debug_bytecode, offset))}

\* The code offsets of the break locations of fn that hold a user break
\* point; the break point of a function that breaks at entry is no location
\* of a bytecode.
BreakPointOffsets(fn) ==
  IF debug_infos[fn].can_break_at_entry THEN {}
  ELSE
  {Locations(fn)[SkipToPosition(Locations(fn),
                                debug_infos[fn].break_points[i].source_position)
                 + 1].code_offset :
     i \in {j \in DOMAIN debug_infos[fn].break_points :
              Len(debug_infos[fn].break_points[j].break_points) > 0}}

\* C2: once Break() has decided the break event (the program is paused in
\* the report, no PrepareStep has re-armed yet), no break location of any
\* DebugInfo of the list carries a debug break except the locations of user
\* break points.
C2_NoOneShotSurvivesDecidedBreak ==
  mode = "paused" =>
    \A i \in DOMAIN debug_info_list_ :
      PatchedOffsets(debug_info_list_[i])
        \subseteq BreakPointOffsets(debug_info_list_[i])

\* C2 witness: paused in a step report (no break point hit) of a step that
\* flooded, with two DebugInfos in the list, one of them holding a patched
\* user break point.
C2_Witness ==
  /\ mode = "paused" /\ last_event.op = "Break"
  /\ last_event.notify = <<[hit |-> << >>, delivered |-> TRUE]>>
  /\ session.request \in {StepOver, StepInto, StepOut}
  /\ Len(debug_info_list_) >= 2
  /\ \E i \in DOMAIN debug_info_list_ :
       /\ debug_info_list_[i] # Top.fn
       /\ BreakPointOffsets(debug_info_list_[i]) # {}
       /\ PatchedOffsets(debug_info_list_[i])
            = BreakPointOffsets(debug_info_list_[i])

\* The break points bound to the break location of the top frame, in the
\* order of their BreakPointInfo.
BoundBreakPoints ==
  LET loc == FromFrame(W, Top)
  IN  IF LocationHasBreakPoint(W, Top.fn, loc)
      THEN GetBreakPoints(debug_infos[Top.fn], loc.position)
      ELSE << >>

\* The condition of break point id is empty or truthy in the top frame.
Fires(id) ==
  \/ break_point_objects[id] = ""
  \/ break_point_objects[id] = "x > 5" /\ Top.x > 5

HasCondition(id) == break_point_objects[id] # ""

\* C3: Break() reports a break point hit exactly when break points are
\* active and a break point bound to the location has no condition or a
\* truthy one; the reported set is exactly the bound break points whose
\* condition is empty or truthy; every condition is evaluated exactly once
\* per arrival (x > 5 hits with x = 10, not with x = 3).
C3_HitsAreTheBoundBreakPointsThatFire ==
  [][BreakEntered
     => LET expected == IF debug_flags.break_points_active_
                        THEN SelectSeq(BoundBreakPoints, Fires) ELSE << >>
            evaluated == IF debug_flags.break_points_active_
                         THEN SelectSeq(BoundBreakPoints, HasCondition)
                         ELSE << >>
        IN  /\ last_event'.evals = evaluated
            /\ IF expected # << >>
               THEN last_event'.notify
                      = <<[hit |-> expected, delivered |-> TRUE]>>
               ELSE OnlyStepReports]_vars

\* C3 witness: two conditional break points at one location, the call has
\* x = 10; both conditions were evaluated, only x > 5 is reported.
C3_Witness ==
  /\ mode = "paused" /\ last_event.op = "Break" /\ Top.x = 10
  /\ Len(last_event.evals) = 2
  /\ Len(last_event.notify) = 1
  /\ Len(last_event.notify[1].hit) = 1
  /\ break_point_objects[last_event.notify[1].hit[1]] = "x > 5"

\* The debugger state with every throwing condition replaced by a condition
\* that evaluates to false.
ThrowAsFalse(w) ==
  [w EXCEPT !.bps = [i \in DOMAIN w.bps |->
                       IF w.bps[i] = "throw" THEN "false" ELSE w.bps[i]]]

\* C4: for every break arrival the report and the resulting stepping state
\* are those Break() produces with the throwing conditions replaced by
\* conditions that evaluate to false, and no exception is left pending.
C4_ThrowingConditionIsFalseCondition ==
  [][BreakEntered
     => LET b == Break(DisableBreak(EnterDebugScope(ThrowAsFalse(W), stack)),
                    stack,
                       Top.fn)
            after == IF Delivered(b) THEN b ELSE LeaveDebugScope(b)
        IN  /\ last_event'.notify = b.notify
            /\ last_event'.evals = b.evals
            /\ thread_local_' = after.tl
            /\ hook_on_function_call_' = after.hook
            /\ debug_infos' = after.infos
            /\ debug_info_list_' = after.list
            /\ mode' = (IF Delivered(b) THEN "paused" ELSE "running")
            /\ ~debug_flags'.has_pending_exception]_vars

\* C4 witness: a StepOver arrived at a location whose only break point has
\* a throwing condition: the condition was evaluated and the report is the
\* step report, with no break point hit.
C4_Witness ==
  /\ mode = "paused" /\ last_event.op = "Break"
  /\ Len(last_event.evals) = 1
  /\ break_point_objects[last_event.evals[1]] = "throw"
  /\ last_event.notify = <<[hit |-> << >>, delivered |-> TRUE]>>
  /\ ~debug_flags.has_pending_exception

\* RemoveBreakpoint(id) is the step being taken and fn holds break point id.
Removes(id, fn) ==
  /\ last_event'.op = "RemoveBreakpoint" /\ last_event'.pc = id
  /\ debug_infos[fn].exists /\ debug_infos[fn].has_break_info
  /\ FindBreakPointInfo(debug_infos[fn].break_points, id, 1) # 0

NoHint(fn) ==
  /\ ~debug_infos[fn].computed_debug_is_blackboxed
  /\ ~debug_infos[fn].debug_is_blackboxed

\* C7: removing the last break point of a function whose DebugInfo has no
\* coverage info and no debugger hint unlinks the record from the list and
\* the function has no DebugInfo any more; when other break points remain
\* the record stays in the list and exactly the remaining break points are
\* patched into the debug bytecode.
C7_LastBreakPointFreesDebugInfo ==
  [][\A id \in 1..thread_local_.last_breakpoint_id_ : \A fn \in Funcs :
       Removes(id, fn)
       => IF GetBreakPointCount(debug_infos[fn]) = 1
          THEN (~debug_infos[fn].has_coverage_info /\ NoHint(fn))
               => /\ ~debug_infos'[fn].exists
                  /\ debug_infos'[fn] = NoDebugInfo
                  /\ debug_info_list_'
                       = SelectSeq(debug_info_list_, LAMBDA g : g # fn)
          ELSE /\ debug_infos'[fn].exists
               /\ debug_info_list_' = debug_info_list_
               /\ GetBreakPointCount(debug_infos'[fn])
                    = GetBreakPointCount(debug_infos[fn]) - 1
               /\ FindBreakPointInfo(debug_infos'[fn].break_points, id, 1) = 0
               /\ PatchedOffsets(fn)' = BreakPointOffsets(fn)'
               /\ BreakPointOffsets(fn)' # {}]_vars

\* C7 witness: the last break point of f has just been removed while f was
\* on the stack and another DebugInfo stays in the list; f has no DebugInfo.
C7_Witness ==
  /\ last_event.op = "RemoveBreakpoint"
  /\ mode = "paused" /\ Top.fn = "f"
  /\ ~debug_infos["f"].exists
  /\ \A i \in DOMAIN debug_info_list_ : debug_info_list_[i] # "f"

\* The source positions of the break locations of the drawn table, in
\* bytecode order.
ItPositions == [i \in DOMAIN ItLocations |-> ItLocations[i].position]

\* The position FindBreakablePosition reads after SkipToPosition(it_arg).
ItResultPosition == ItPositions[it_result + 1]

ItExact == {i \in DOMAIN ItPositions : ItPositions[i] = it_arg}
ItLater == {i \in DOMAIN ItPositions : ItPositions[i] >= it_arg}
ItLeast(S) == CHOOSE i \in S : \A j \in S : i <= j
ItNonDecreasing ==
  \A i, j \in DOMAIN ItPositions : i <= j => ItPositions[i] <= ItPositions[j]

\* C5 as stated: for every table with at least one break location and every
\* source position p, SkipToPosition(p) ends at a location whose source
\* position is >= p, and no break location has a source position in
\* [p, result).
C5_ResultIsLeastPositionNotBelow ==
  it_query = "SkipToPosition" =>
    /\ ItResultPosition >= it_arg
    /\ \A i \in DOMAIN ItPositions :
         ~(it_arg <= ItPositions[i] /\ ItPositions[i] < ItResultPosition)

\* C5 amended: SkipToPosition(p) ends at the first break location in
\* bytecode order whose source position equals p; if there is none, at the
\* first one in bytecode order whose source position is >= p; if there is
\* none either, at the last break location.  So the result position is >= p
\* exactly when some break location is at or after p, and no break location
\* lies in [p, result) when in addition the positions do not decrease along
\* the bytecode.
C5_ResultIsFirstExactElseFirstLaterElseLast ==
  it_query = "SkipToPosition" =>
    /\ it_result + 1 = (IF ItExact # {} THEN ItLeast(ItExact)
                        ELSE IF ItLater # {} THEN ItLeast(ItLater)
                        ELSE Len(ItPositions))
    /\ (ItResultPosition >= it_arg) <=> (ItLater # {})
    /\ (ItLater # {} /\ ItNonDecreasing)
         => \A i \in DOMAIN ItPositions :
              ~(it_arg <= ItPositions[i] /\ ItPositions[i] < ItResultPosition)

\* C5 witness: a table of three break locations whose positions are not in
\* order, queried at a position that the third location matches exactly
\* while the first one is the first at or after it.
C5_Witness ==
  /\ it_query = "SkipToPosition"
  /\ it_result = 2
  /\ Len(ItPositions) = 3
  /\ ItPositions[1] > it_arg
  /\ ItPositions[2] < it_arg
  /\ ItPositions[3] = it_arg

\* The debug bytecode of k.
KDebugBytecode == debug_infos["k"].debug_bytecode

\* C6: SetDebugBreak() followed immediately by ClearDebugBreak() at the same
\* break location leaves the byte at the location equal to the byte of the
\* original bytecode (its value before any patch) and every other byte as it
\* was before SetDebugBreak; the whole debug bytecode equals its value
\* before SetDebugBreak whenever the location carried no debug break then.
\* This holds for call, return, suspend and statement locations, with or
\* without a scaling prefix.  At a debugger-statement location SetDebugBreak
\* and ClearDebugBreak each leave the debug bytecode unchanged.
C6_SetThenClearRestoresBytecode ==
  [][\A i \in DOMAIN Locations("k") :
       LET location == Locations("k")[i]
           offset == location.code_offset
       IN  /\ (/\ DoSetDebugBreak(i) \/ DoClearDebugBreak(i)
               /\ location.type = "DEBUGGER_STATEMENT")
                => UNCHANGED debug_infos
           /\ (/\ DoClearDebugBreak(i)
               /\ last_event.op = "SetDebugBreak"
               /\ last_event.pc = offset)
                => /\ Len(KDebugBytecode') = Len(patch_prev)
                   /\ ByteAt(KDebugBytecode', offset)
                        = ByteAt(OriginalBytecode["k"], offset)
                   /\ \A o \in 0..(Len(patch_prev) - 1) :
                        o # offset
                          => ByteAt(KDebugBytecode', o) = ByteAt(patch_prev, o)
                   /\ ~IsDebugBreak(ByteAt(patch_prev, offset))
                        => KDebugBytecode' = patch_prev]_vars

\* C6 witness: ClearDebugBreak has just followed SetDebugBreak at k's
\* statement location behind a scaling prefix, which carried no debug break
\* before, while another location of k stays patched; the debug bytecode is
\* again what it was before SetDebugBreak.
C6_Witness ==
  /\ last_event.op = "ClearDebugBreak"
  /\ last_event.arg = "after SetDebugBreak"
  /\ IsPrefixScalingBytecode(ByteAt(OriginalBytecode["k"], last_event.pc))
  /\ ~IsDebugBreak(ByteAt(patch_prev, last_event.pc))
  /\ KDebugBytecode = patch_prev
  /\ KDebugBytecode # OriginalBytecode["k"]

\* The break location at which the controller made the session's request.
SessionLocation ==
  BreakLocationsOf(session.at_fn)
    [BreakIndexFromCodeOffset(BreakLocationsOf(session.at_fn), session.at_pc)
     + 1]

\* The controller requested StepOut at a location that is no return or
\* suspend, in a function that is not blackboxed, and
\* break-on-next-function-call is not armed.
SteppingOutFromNonReturn ==
  /\ session.request = StepOut
  /\ ~IsReturnOrSuspend(SessionLocation)
  /\ ~DelegateBlackboxes(session.at_fn)
  /\ ~thread_local_.break_on_next_function_call_

\* The step being taken is a Break() that delivers a step report (no break
\* point hit) to the controller.
StepReported ==
  /\ BreakEntered
  /\ Len(last_event'.notify) > 0
  /\ last_event'.notify[Len(last_event'.notify)]
       = [hit |-> << >>, delivered |-> TRUE]

FPositions ==
  [i \in DOMAIN BreakLocationsOf("f") |-> BreakLocationsOf("f")[i].position]
IsStatementOfF(position) ==
  \E i \in DOMAIN BreakLocationsOf("f") :
    /\ BreakLocationsOf("f")[i].position = position
    /\ BreakLocationsOf("f")[i].type = "DEBUG_BREAK_SLOT"
FStatementPositions == SelectSeq(FPositions, IsStatementOfF)

IsReportInF(report) == report.fn = "f"

\* The positions of the pauses inside f of a session of repeated StepInto
\* requests that began with the program paused at f's entry: the entry
\* pause, then the reports made in f.
PausesInF ==
  LET in_f == SelectSeq(session.reports, IsReportInF)
  IN  <<FPositions[1]>> \o [i \in DOMAIN in_f |-> in_f[i].position]

\* The controller, paused at the entry of f, requested StepInto and has
\* answered StepInto to every report since.
SteppingIntoFromEntryOfF ==
  /\ session.request = StepInto
  /\ session.at_fn = "f" /\ session.at_pc = 0

\* The session's stepping has left f: the last report was made outside f.
LeftF ==
  /\ mode = "paused"
  /\ Len(session.reports) > 0
  /\ session.reports[Len(session.reports)].fn # "f"

\* C9 as stated: f's body is two statements on different lines; requesting
\* StepInto at entry and repeating it on every report yields exactly two
\* break reports inside f, one per statement, in source order.
C9_TwoReportsOnePerStatement ==
  (SteppingIntoFromEntryOfF /\ LeftF) => PausesInF = FStatementPositions

\* C9 amended: requesting StepInto at the entry of f and repeating it on
\* every report yields one report per break location of f, in bytecode
\* order, none repeated and none skipped, all in the frame the session
\* began in: one per statement and then one at the return location, which
\* Break() reports under StepInto whatever the statement position is.  For
\* the two statements of f that is three pauses in f.
C9_OneReportPerBreakLocation ==
  SteppingIntoFromEntryOfF =>
    /\ Len(PausesInF) <= Len(FPositions)
    /\ PausesInF = SubSeq(FPositions, 1, Len(PausesInF))
    /\ \A i \in DOMAIN session.reports :
         session.reports[i].fn = "f"
           => /\ session.reports[i].depth = session.at_depth
              /\ \A j \in 1..(i - 1) : session.reports[j].fn = "f"
    /\ LeftF => /\ PausesInF = FPositions
                /\ PausesInF = FStatementPositions
                                 \o <<FPositions[Len(FPositions)]>>

\* C9 witness: stepping into from the entry of f has paused at the second
\* statement and at the return of f, and the following report has arrived
\* in another function.
C9_Witness ==
  /\ SteppingIntoFromEntryOfF /\ LeftF
  /\ Len(PausesInF) = 3
  /\ Len(FStatementPositions) = 2
  /\ Len(session.reports) = 3

\* The step being taken resumes the suspended generator (generator.next()).
GeneratorResumed == last_event'.op = "ResumeGenerator"

\* Every break location of fn carries a debug break.
Flooded(fn) ==
  /\ debug_infos[fn].exists /\ debug_infos[fn].instrumented
  /\ PatchedOffsets(fn)
       = {BreakLocationsOf(fn)[i].code_offset :
            i \in DOMAIN BreakLocationsOf(fn)}

HasAttachment(info) ==
  info.has_break_info \/ info.has_coverage_info \/ HasDebuggerHints(info)

\* The list holds the records that exist, each once.
ListHoldsTheRecords ==
  /\ \A fn \in Funcs : debug_infos[fn].exists <=> InSeq(fn, debug_info_list_)
  /\ \A i, j \in DOMAIN debug_info_list_ :
       debug_info_list_[i] = debug_info_list_[j] => i = j

ExistsIffAttached ==
  \A fn \in Funcs : debug_infos[fn].exists <=> HasAttachment(debug_infos[fn])

\* A record that the step destroyed held nothing but what the step's
\* operation clears.
DestroyedOnlyWhenCleared ==
  \A fn \in Funcs :
    debug_infos[fn].exists /\ ~debug_infos'[fn].exists =>
      \/ /\ last_event'.op = "RemoveBreakpoint"
         /\ ~debug_infos[fn].has_coverage_info
         /\ ~HasDebuggerHints(debug_infos[fn])
      \/ /\ last_event'.op = "RemoveAllCoverageInfos"
         /\ ~debug_infos[fn].has_break_info
         /\ ~HasDebuggerHints(debug_infos[fn])
      \/ /\ last_event'.op = "SetDebugDelegate"
         /\ last_event'.arg = "nullptr"

\* C11: in every reachable state a DebugInfo exists for a function (it is in
\* the DebugInfo list and the function has it) if and only if break info,
\* coverage info or a debugger hint is attached to it; no operation leaves
\* an empty record in the list, and a record is destroyed only by an
\* operation that cleared everything that was attached to it.
C11_DebugInfoExistsIffSomethingAttached ==
  [][/\ ListHoldsTheRecords /\ ListHoldsTheRecords'
     /\ ExistsIffAttached /\ ExistsIffAttached'
     /\ DestroyedOnlyWhenCleared]_vars

\* The last break point of s was removed and its record stays, because a
\* side effect check left its hint there.
C11_Witness ==
  /\ last_event.op = "RemoveBreakpoint"
  /\ debug_infos["s"].exists
  /\ ~debug_infos["s"].has_break_info
  /\ debug_infos["s"].side_effect_state # "kNotComputed"
  /\ ~debug_infos["f"].exists

\* ------------------------------------------------------------------------
\* C12.  The debug bytecode and the original bytecode.
\* ------------------------------------------------------------------------
\* The code offsets at which the debug bytecode of fn is not the original.
DivergedOffsets(fn) ==
  {offset \in 0..(Len(debug_infos[fn].debug_bytecode) - 1) :
     ByteAt(debug_infos[fn].debug_bytecode, offset)
       # ByteAt(OriginalBytecode[fn], offset)}

\* The code offsets of the break locations a BreakIterator of fn can patch.
BreakLocationOffsets(fn) ==
  {Locations(fn)[i].code_offset :
     i \in {j \in DOMAIN Locations(fn) :
              Locations(fn)[j].type # "DEBUGGER_STATEMENT"}}

\* The code offsets at which ApplySideEffectChecks puts a check.
SideEffectCheckOffsets(fn) ==
  {offset \in 0..(Len(OriginalBytecode[fn]) - 1) :
     BytecodeRequiresRuntimeSideEffectCheck(
       ByteAt(OriginalBytecode[fn], offset))}

DivergedOnlyWhereInstrumented ==
  \A fn \in Funcs :
    \A offset \in DivergedOffsets(fn) :
      /\ debug_infos[fn].instrumented
      /\ ByteAt(debug_infos[fn].debug_bytecode, offset)
           = GetDebugBreak(ByteAt(OriginalBytecode[fn], offset))
      /\ IF debug_infos[fn].debug_execution_mode = "kSideEffects"
         THEN offset \in SideEffectCheckOffsets(fn)
         ELSE /\ debug_infos[fn].has_break_info
              /\ offset \in BreakLocationOffsets(fn)

\* Debug::ClearBreakPoints runs its loop on this DebugInfo.
ClearBreakPointsIterates(fn) ==
  /\ debug_infos[fn].exists
  /\ ~debug_infos[fn].can_break_at_entry
  /\ debug_infos[fn].instrumented
  /\ debug_infos[fn].has_break_info

ClearBreakPointsRestoresOriginal ==
  \A fn \in Funcs :
    ClearBreakPointsIterates(fn) =>
      \A i \in DOMAIN Locations(fn) :
        ByteAt(ClearBreakPoints(W, fn).infos[fn].debug_bytecode,
               Locations(fn)[i].code_offset)
          = ByteAt(OriginalBytecode[fn], Locations(fn)[i].code_offset)

ItOffsets == [i \in DOMAIN ItLocations |-> ItLocations[i].code_offset]
ItNotAfter == {i \in DOMAIN ItOffsets : ItOffsets[i] <= it_arg}
ItGreatestNotAfter ==
  CHOOSE i \in ItNotAfter : \A j \in ItNotAfter : ItOffsets[j] <= ItOffsets[i]

\* C13 as stated: for every code offset of the function, also one smaller
\* than the offset of every break location, BreakIndexFromCodeOffset returns
\* the index of the break location whose code offset is the greatest one
\* that does not exceed the offset.
C13_ResultIsGreatestOffsetNotAfter ==
  it_query = "BreakIndexFromCodeOffset" =>
    /\ ItOffsets[it_result + 1] <= it_arg
    /\ \A i \in ItNotAfter : ItOffsets[i] <= ItOffsets[it_result + 1]

\* C13 amended: when some break location has a code offset that does not
\* exceed the offset, BreakIndexFromCodeOffset returns the index of the one
\* with the greatest such code offset, which is the location at the offset
\* when there is one; when every break location is after the offset it
\* returns index 0, the first break location, whose code offset exceeds the
\* offset.
C13_ResultIsGreatestOffsetNotAfterElseFirst ==
  it_query = "BreakIndexFromCodeOffset" =>
    IF ItNotAfter # {}
    THEN /\ it_result + 1 = ItGreatestNotAfter
         /\ (\E i \in DOMAIN ItOffsets : ItOffsets[i] = it_arg)
              => ItOffsets[it_result + 1] = it_arg
    ELSE /\ it_result = 0
         /\ ItOffsets[1] > it_arg

\* C13 witness: the first bytecode of the function is no break location
\* and the query is for its code offset.
C13_Witness ==
  /\ it_query = "BreakIndexFromCodeOffset"
  /\ it_arg = 0
  /\ Len(ItOffsets) = 2
  /\ ItOffsets[1] = 1
  /\ it_result = 0

\* ------------------------------------------------------------------------
\* C14.  BreakIterator::SkipToPosition: exact and nearest match.
\* ------------------------------------------------------------------------
ItAfter == {i \in DOMAIN ItPositions : ItPositions[i] > it_arg}

\* C14 as stated: SkipToPosition(sourcePos) ends at the earliest location,
\* in bytecode order, whose source position is >= sourcePos (when there is
\* one); at an exact match when some location is at sourcePos; and, without
\* an exact match, at the first location in bytecode order whose position
\* is after sourcePos.
C14_ResultIsEarliestNotBelow ==
  it_query = "SkipToPosition" =>
    /\ ItLater # {} => it_result + 1 = ItLeast(ItLater)
    /\ ItExact # {} => ItResultPosition = it_arg
    /\ (ItExact = {} /\ ItAfter # {}) => it_result + 1 = ItLeast(ItAfter)

\* C14 amended: when some location has source position exactly sourcePos,
\* SkipToPosition(sourcePos) ends at the first exact match in bytecode
\* order, also when a location with a greater position comes earlier in
\* the bytecode; without an exact match it ends at the first location in
\* bytecode order whose position is after sourcePos; when every location is
\* before sourcePos it ends at the last location.  The result is the
\* earliest location whose position is >= sourcePos when the positions do
\* not decrease along the bytecode or no exact match exists.
C14_ResultIsFirstExactElseFirstAfter ==
  it_query = "SkipToPosition" =>
    /\ ItExact # {} => it_result + 1 = ItLeast(ItExact)
    /\ (ItExact = {} /\ ItAfter # {}) =>
         /\ it_result + 1 = ItLeast(ItAfter)
         /\ ItResultPosition > it_arg
    /\ ItLater = {} => it_result + 1 = Len(ItPositions)
    /\ (ItLater # {} /\ (ItNonDecreasing \/ ItExact = {}))
         => it_result + 1 = ItLeast(ItLater)

\* C14 witness: the first location is after the queried position and the
\* second one, later in the bytecode, matches it exactly; the iterator ends
\* at the second.
C14_Witness ==
  /\ it_query = "SkipToPosition"
  /\ Len(ItPositions) = 2
  /\ ItPositions[1] > it_arg
  /\ ItPositions[2] = it_arg
  /\ it_result = 1

\* ------------------------------------------------------------------------
\* C15.  SetDebugBreak and ClearDebugBreak are idempotent.
\* ------------------------------------------------------------------------
\* C15: SetDebugBreak called a second time at the same break location
\* leaves the debug bytecode as the first call left it, and so does a
\* second ClearDebugBreak; at a debugger-statement location neither of them
\* changes the debug bytecode at all.
C15_SetAndClearDebugBreakAreIdempotent ==
  [][\A i \in DOMAIN Locations("k") :
       LET location == Locations("k")[i]
           offset == location.code_offset
       IN  /\ (/\ DoSetDebugBreak(i)
               /\ last_event.op = "SetDebugBreak"
               /\ last_event.pc = offset)
                => KDebugBytecode' = KDebugBytecode
           /\ (/\ DoClearDebugBreak(i)
               /\ last_event.op = "ClearDebugBreak"
               /\ last_event.pc = offset)
                => KDebugBytecode' = KDebugBytecode
           /\ (/\ location.type = "DEBUGGER_STATEMENT"
               /\ DoSetDebugBreak(i) \/ DoClearDebugBreak(i))
                => KDebugBytecode' = KDebugBytecode]_vars

\* C15 witness: SetDebugBreak was called twice in a row at a location of k
\* that is no debugger statement; the location carries the debug break and
\* the second call changed nothing.
C15_Witness ==
  /\ last_event.op = "SetDebugBreak"
  /\ last_event.arg = "after SetDebugBreak"
  /\ \E i \in DOMAIN Locations("k") :
       /\ Locations("k")[i].code_offset = last_event.pc
       /\ Locations("k")[i].type # "DEBUGGER_STATEMENT"
  /\ IsDebugBreak(ByteAt(KDebugBytecode, last_event.pc))
  /\ ~IsDebugBreak(ByteAt(OriginalBytecode["k"], last_event.pc))
  /\ KDebugBytecode = patch_prev

\* ------------------------------------------------------------------------
\* C16.  Break point requests that fail.
\* ------------------------------------------------------------------------
\* The step was a request to set a break point.
SetRequested ==
  last_event'.op \in {"SetBreakPointForScript", "SetBreakpointForFunction"}

\* The request of the step cannot be served: no function subject to
\* debugging contains the position, the function is not subject to
\* debugging, or its compilation fails.
CannotBeSet ==
  \/ /\ last_event'.op = "SetBreakPointForScript"
     /\ FindInnermostContainingFunctionInfo(last_event'.pc) = Undefined
  \/ /\ last_event'.op = "SetBreakpointForFunction"
     /\ \/ ~IsSubjectToDebugging(last_event'.fn)
        \/ ~IsCompiled(last_event'.fn) /\ CompileFails(last_event'.fn)

\* C16: a request to set a break point that cannot be served (no containing
\* function, function not subject to debugging, compilation failure)
\* returns false; a request that returned false leaves no pending
\* exception, registers no break point in any DebugInfo and changes no byte
\* of any debug bytecode.
C16_FailedSetBreakpointLeavesNothing ==
  [][SetRequested =>
       /\ CannotBeSet <=> ~last_event'.result
       /\ ~last_event'.result =>
            /\ ~debug_flags'.has_pending_exception
            /\ debug_flags'.pending_exception = "none"
            /\ \A fn \in Funcs :
                 /\ debug_infos'[fn].break_points = debug_infos[fn].break_points
                 /\ debug_infos'[fn].debug_bytecode
                      = debug_infos[fn].debug_bytecode
                 /\ debug_infos'[fn].break_at_entry
                      = debug_infos[fn].break_at_entry]_vars

\* C16 witness: a break point for lazy was refused while f holds a break
\* point that is patched into its debug bytecode.
C16_Witness ==
  /\ last_event.op = "SetBreakpointForFunction"
  /\ last_event.fn = "lazy"
  /\ ~last_event.result
  /\ ~debug_infos["lazy"].exists
  /\ BreakPointOffsets("f") # {}
  /\ PatchedOffsets("f") = BreakPointOffsets("f")
  /\ thread_local_.last_breakpoint_id_ = 2

\* ------------------------------------------------------------------------
\* C17.  is_active_ and the debug delegate.
\* ------------------------------------------------------------------------
ActiveIffDelegate == debug_flags.is_active_ = debug_flags.debug_delegate_

\* What Debug::ClearStepping leaves in the thread-local state.
SteppingCleared ==
  /\ thread_local_.last_step_action_ = StepNone
  /\ thread_local_.last_statement_position_ = kNoSourcePosition
  /\ thread_local_.ignore_step_into_function_ = NoFunction
  /\ thread_local_.fast_forward_to_return_ = FALSE
  /\ thread_local_.last_frame_count_ = -1
  /\ thread_local_.target_frame_count_ = -1
  /\ thread_local_.break_on_next_function_call_ = FALSE
  /\ ~hook_on_function_call_

AllDebugInfoDiscarded ==
  /\ debug_info_list_ = << >>
  /\ \A fn \in Funcs : debug_infos[fn] = NoDebugInfo

Activated == ~debug_flags.is_active_ /\ debug_flags'.is_active_
Deactivated == debug_flags.is_active_ /\ ~debug_flags'.is_active_

\* C17 as stated: is_active_ equals "a delegate is installed" after every
\* step; activation disables script/eval caching and collects source
\* positions; deactivation re-enables caching, discards all debug info and
\* clears the stepping state, the reference to the suspended generator
\* included.
C17_DeactivationClearsAllSteppingState ==
  [][/\ ActiveIffDelegate'
     /\ Activated =>
          /\ ~debug_flags'.script_and_eval_cache_enabled
          /\ debug_flags'.source_positions_collected
     /\ Deactivated =>
          /\ debug_flags'.script_and_eval_cache_enabled
          /\ AllDebugInfoDiscarded'
          /\ SteppingCleared'
          /\ thread_local_'.suspended_generator_ = NoGenerator]_vars

\* C17 amended: is_active_ equals "a delegate is installed" after every
\* SetDebugDelegate and every DebugScope entry or exit (after every step);
\* activation disables script/eval caching and collects source positions;
\* deactivation re-enables caching and discards all debug info (empty
\* DebugInfo list, no break point, coverage info or debugger hint) and
\* clears the stepping state that ClearStepping clears (step action,
\* statement position, frame counts, fast-forward flag, break on next call,
\* one-shot breaks); the reference to the suspended generator and the last
\* break point id stay as they were.
C17_DeactivationDiscardsDebugInfo ==
  [][/\ ActiveIffDelegate'
     /\ Activated =>
          /\ ~debug_flags'.script_and_eval_cache_enabled
          /\ debug_flags'.source_positions_collected
     /\ Deactivated =>
          /\ debug_flags'.script_and_eval_cache_enabled
          /\ AllDebugInfoDiscarded'
          /\ SteppingCleared'
          /\ thread_local_'.suspended_generator_
               = thread_local_.suspended_generator_
          /\ thread_local_'.last_breakpoint_id_
               = thread_local_.last_breakpoint_id_]_vars

\* C17 witness: the delegate was removed while the debugger waited for the
\* suspended generator of a step; all debug info is gone and the reference
\* to the generator is still there.
C17_Witness ==
  /\ last_event.op = "SetDebugDelegate"
  /\ last_event.arg = "nullptr"
  /\ ~debug_flags.is_active_
  /\ AllDebugInfoDiscarded
  /\ thread_local_.suspended_generator_ # NoGenerator
  /\ thread_local_.last_breakpoint_id_ > 0

\* ------------------------------------------------------------------------
\* C18.  Side effect violations and their conversion to an EvalError.
\* ------------------------------------------------------------------------
\* The step was a side effect check that found a violation: the called
\* function has side effects, or the store goes to an object the evaluation
\* did not allocate.
ViolationFound ==
  \/ /\ last_event'.op = "PerformSideEffectCheck"
     /\ debug_infos'[last_event'.fn].side_effect_state = "kHasSideEffects"
  \/ /\ last_event'.op = "PerformSideEffectCheckAtBytecode"
     /\ ~last_event'.result

TerminationPending(flags) ==
  flags.has_pending_exception /\ flags.pending_exception = "termination"

\* C18: a side effect violation sets side_effect_check_failed_ and throws
\* the termination exception, which is not catchable; StopSideEffectCheckMode
\* after a violation cancels the termination and throws an EvalError
\* instead, and after every StopSideEffectCheckMode the execution mode is
\* kBreakpoints, side_effect_check_failed_ is false and the temporary object
\* tracker is removed; no other operation takes the termination back.
C18_ViolationTerminatesAndStopConverts ==
  [][/\ ViolationFound =>
          /\ ~last_event'.result
          /\ debug_flags'.side_effect_check_failed_
          /\ TerminationPending(debug_flags')
     /\ debug_flags'.side_effect_check_failed_
          => TerminationPending(debug_flags')
     /\ last_event'.op = "StopSideEffectCheckMode" =>
          /\ last_event'.arg = (IF debug_flags.side_effect_check_failed_
                                THEN "EvalError"
                                ELSE debug_flags.pending_exception)
          /\ debug_flags'.debug_execution_mode = "kBreakpoints"
          /\ ~debug_flags'.side_effect_check_failed_
          /\ ~debug_flags'.temporary_objects_
          /\ \A fn \in Funcs :
               debug_infos'[fn].debug_execution_mode = "kBreakpoints"
     /\ (TerminationPending(debug_flags) /\ ~TerminationPending(debug_flags'))
          => last_event'.op = "StopSideEffectCheckMode"
     /\ (debug_flags.side_effect_check_failed_
         /\ ~debug_flags'.side_effect_check_failed_)
          => last_event'.op = "StopSideEffectCheckMode"]_vars

\* C18 witness: the evaluation stored to an object it did not allocate, and
\* StopSideEffectCheckMode has thrown the EvalError; the side effect check
\* is gone from the debug bytecode of s.
C18_Witness ==
  /\ last_event.op = "StopSideEffectCheckMode"
  /\ last_event.arg = "EvalError"
  /\ debug_flags.debug_execution_mode = "kBreakpoints"
  /\ ~debug_flags.side_effect_check_failed_
  /\ debug_infos["s"].instrumented
  /\ debug_infos["s"].side_effect_state = "kRequiresRuntimeChecks"
  /\ DivergedOffsets("s") = {}

\* ------------------------------------------------------------------------
\* C19: ArchiveDebug followed by RestoreDebug.
\* ------------------------------------------------------------------------
\* The stepping state of a thread.
SteppingState(tl) ==
  [last_step_action_ |-> tl.last_step_action_,
   last_statement_position_ |-> tl.last_statement_position_,
   last_frame_count_ |-> tl.last_frame_count_,
   target_frame_count_ |-> tl.target_frame_count_,
   fast_forward_to_return_ |-> tl.fast_forward_to_return_,
   suspended_generator_ |-> tl.suspended_generator_,
   last_breakpoint_id_ |-> tl.last_breakpoint_id_]

\* The code offsets of the DebugInfo at list index i that hold a one-shot
\* break.
OneShotOffsets(i) ==
  PatchedOffsets(debug_info_list_[i]) \ BreakPointOffsets(debug_info_list_[i])

\* The step action of the buffer is armed: one-shot breaks are set, and only
\* in functions that have a frame on the stack; no step action, no one-shot
\* break.
ArchivedStepArmed ==
  /\ \A i \in DOMAIN debug_info_list_ :
       OneShotOffsets(i) # {}
         => /\ storage.thread_local.last_step_action_ # StepNone
            /\ \E d \in DOMAIN stack : stack[d].fn = debug_info_list_[i]
  /\ storage.thread_local.last_step_action_ # StepNone
       => \E i \in DOMAIN debug_info_list_ : OneShotOffsets(i) # {}

\* C19: RestoreDebug of the buffer ArchiveDebug wrote returns with the
\* stepping state of the buffer (step action, last statement position, last
\* frame count, target frame count, fast-forward flag, suspended generator,
\* last break point id); when a step action was archived, the break frame
\* it steps from is the frame at the archived target depth; the one-shot
\* breaks of the other thread are gone and the archived step action is
\* armed.
C19_RestoreDebugRestoresSteppingState ==
  [][last_event'.op = "RestoreDebug"
       => /\ mode' = "running"
          /\ SteppingState(thread_local_')
               = SteppingState(storage.thread_local)
          /\ storage.thread_local.last_step_action_ # StepNone
               => /\ last_event'.depth \in DOMAIN stack
                  /\ CountFrames(stack, last_event'.depth)
                       = storage.thread_local.target_frame_count_
          /\ ArchivedStepArmed']_vars

\* C19 witness: the thread left the isolate while stepping into (no target
\* frame count is recorded for StepInto), two frames deep or deeper, and
\* RestoreDebug walked past the last frame of the stack.
C19_Witness ==
  /\ last_event.op = "RestoreDebug" /\ last_event.arg = "crash"
  /\ mode = "crashed"
  /\ storage.thread_local.last_step_action_ = StepInto
  /\ storage.thread_local.target_frame_count_ = -1
  /\ Len(stack) >= 2

\* ------------------------------------------------------------------------
\* C20: terminate-on-resume.
\* ------------------------------------------------------------------------
\* The innermost DebugScope is destroyed in this step.
ScopeExit == Len(debug_scopes') = Len(debug_scopes) - 1

\* The stack guard is asked to terminate execution in this step.
TerminationRequested ==
  /\ ~debug_flags.terminate_execution_requested
  /\ debug_flags'.terminate_execution_requested

\* The scopes outside the innermost n keep their terminate-on-resume.
OuterScopesKeep(n) ==
  \A i \in 1..(Len(debug_scopes) - n) :
    debug_scopes'[i].terminate_on_resume_
      = debug_scopes[i].terminate_on_resume_

\* The exit of the innermost scope hands its terminate-on-resume to the scope
\* around it and to no other scope; the exit of the outermost scope turns it
\* into the termination request.
ExitPropagatesOneScope ==
  ScopeExit =>
    LET n == Len(debug_scopes)
        set == debug_scopes[n].terminate_on_resume_
    IN  /\ OuterScopesKeep(2)
        /\ n > 1 => /\ debug_scopes'[n - 1].terminate_on_resume_
                      = (set \/ debug_scopes[n - 1].terminate_on_resume_)
                    /\ ~TerminationRequested
        /\ n = 1 => (TerminationRequested <=> set)

\* No step takes terminate-on-resume from a scope that stays.
NeverRevoked ==
  \A i \in DOMAIN debug_scopes \cap DOMAIN debug_scopes' :
    debug_scopes[i].terminate_on_resume_
      => debug_scopes'[i].terminate_on_resume_

\* Termination is requested only by the exit of the outermost scope, with
\* terminate-on-resume set on it.
RequestedOnlyAtOutermostExit ==
  TerminationRequested
    => /\ ScopeExit /\ Len(debug_scopes) = 1
       /\ debug_scopes[1].terminate_on_resume_

\* SetTerminateOnResume with a current scope sets it on that scope and on no
\* other; without one it does not return.
SetOnlyInScope ==
  last_event'.op = "SetTerminateOnResume"
    => IF Len(debug_scopes) = 0 THEN mode' = "crashed"
       ELSE /\ mode' = mode
            /\ Len(debug_scopes') = Len(debug_scopes)
            /\ debug_scopes'[Len(debug_scopes)].terminate_on_resume_
            /\ OuterScopesKeep(1)

\* C20: terminate-on-resume set on a DebugScope moves to the enclosing scope
\* at each scope exit, one scope per exit; RequestTerminateExecution is
\* called at the exit of the outermost scope exactly when that scope has it
\* set, and at no other step; no step revokes it from a scope; and
\* SetTerminateOnResume requires a current DebugScope.
C20_TerminateOnResumePropagatesToOutermostExit ==
  [][/\ ExitPropagatesOneScope
     /\ NeverRevoked
     /\ RequestedOnlyAtOutermostExit
     /\ SetOnlyInScope]_vars

\* C20 witness: a nested debugger entry has returned and handed its
\* terminate-on-resume to the scope around it, itself nested in the scope of
\* the break report, which does not have it; no termination is requested.
C20_Witness ==
  /\ last_event.op = "LeaveDebugScope"
  /\ Len(debug_scopes) = 2
  /\ debug_scopes[2].terminate_on_resume_
  /\ ~debug_scopes[1].terminate_on_resume_
  /\ ~debug_flags.terminate_execution_requested
  /\ mode = "paused"

\* ------------------------------------------------------------------------
\* C21: the stack discipline of DebugScopes.
\* ------------------------------------------------------------------------
\* A DebugScope is constructed in this step and stays open.
ScopeEntry == Len(debug_scopes') = Len(debug_scopes) + 1

\* The frame id of the topmost frame.
TopFrameId == IF Len(stack) > 0 THEN Len(stack) ELSE NO_ID

\* The break frame ids the open scopes have saved, outermost first.
SavedBreakFrameIds == [i \in DOMAIN debug_scopes |-> debug_scopes[i].break_frame_id_]

\* C21: entering a DebugScope saves the break frame id in the new scope,
\* links it as the current scope in front of the scopes already open and
\* makes the topmost frame the break frame (NO_ID without a frame); leaving
\* it restores the saved id and makes the scope around it current again; no
\* other step changes the chain or the break frame id.  With no scope open
\* the break frame id is the one from before the outermost entry (NO_ID),
\* and in_debug_scope holds exactly while a scope is open.
C21_DebugScopesObeyStackDiscipline ==
  [][/\ ScopeEntry
          => /\ SavedBreakFrameIds'
                  = Append(SavedBreakFrameIds, thread_local_.break_frame_id_)
             /\ thread_local_'.break_frame_id_ = TopFrameId
     /\ ScopeExit
          => /\ SavedBreakFrameIds'
                  = SubSeq(SavedBreakFrameIds, 1, Len(debug_scopes) - 1)
             /\ thread_local_'.break_frame_id_
                  = debug_scopes[Len(debug_scopes)].break_frame_id_
     /\ ~ScopeEntry /\ ~ScopeExit
          => /\ SavedBreakFrameIds' = SavedBreakFrameIds
             /\ thread_local_'.break_frame_id_ = thread_local_.break_frame_id_
     /\ Len(debug_scopes') = 0 => thread_local_'.break_frame_id_ = NO_ID
     /\ in_debug_scope(W)' <=> Len(debug_scopes') > 0]_vars

\* C21 witness: three scopes are open after a fourth was left; the break
\* frame is the topmost frame again and the outermost scope holds the id
\* from before the first entry.
C21_Witness ==
  /\ last_event.op = "LeaveDebugScope"
  /\ Len(debug_scopes) = 3
  /\ Len(stack) >= 2
  /\ thread_local_.break_frame_id_ = Len(stack)
  /\ SavedBreakFrameIds = <<NO_ID, Len(stack), Len(stack)>>

\* ------------------------------------------------------------------------
\* C22: muted locations.
\* ------------------------------------------------------------------------
\* The statement the top frame is in: the position of the last statement
\* entry of the source position table at or before the frame's offset.
TopStatement ==
  LET spt == SourcePositionTable[Top.fn]
      before == {i \in DOMAIN spt :
                   spt[i].is_statement /\ spt[i].code_offset <= Top.pc}
  IN  IF before = {} THEN StartPosition[Top.fn]
      ELSE spt[CHOOSE i \in before : \A j \in before : j <= i].source_position

\* The break points of the top frame's function at a break location on the
\* top frame's statement.
BreakPointsOnTopStatement ==
  IF ~HasBreakInfo(W, Top.fn) THEN {}
  ELSE LET locs == Locations(Top.fn)
           infos == debug_infos[Top.fn].break_points
       IN  {id \in DOMAIN break_point_objects :
              \E i \in DOMAIN infos, l \in DOMAIN locs :
                /\ locs[l].statement_position = TopStatement
                /\ locs[l].position = infos[i].source_position
                /\ \E b \in DOMAIN infos[i].break_points :
                     infos[i].break_points[b] = id}

\* The top frame is at a location whose statement has break points, none of
\* which fires.
AllOnTopStatementFalse ==
  /\ BreakPointsOnTopStatement # {}
  /\ \A id \in BreakPointsOnTopStatement : ~Fires(id)

C23_PrepareStepWithoutStackIsNoOp ==
  [][last_event'.op = "PrepareStep" /\ thread_local_.break_frame_id_ = NO_ID
       => /\ thread_local_' = thread_local_
          /\ hook_on_function_call_' = hook_on_function_call_
          /\ \A fn \in Funcs :
               debug_infos'[fn].debug_bytecode = debug_infos[fn].debug_bytecode
          /\ UNCHANGED dbg_vars]_vars

\* C23 witness: the program has returned in the middle of a step, main still
\* carries one-shot breaks; a step with another action was asked for inside
\* a debugger entry and the step action is still the old one.
C23_Witness ==
  /\ last_event.op = "PrepareStep"
  /\ Len(stack) = 0 /\ thread_local_.break_frame_id_ = NO_ID
  /\ in_debug_scope(W)
  /\ thread_local_.last_step_action_ # StepNone
  /\ last_event.arg # thread_local_.last_step_action_
  /\ \E fn \in Funcs : PatchedOffsets(fn) # {}

\* ------------------------------------------------------------------------
\* C24: the effective step action at returns and suspends.
\* ------------------------------------------------------------------------
\* The controller answers the break report with a step request in this step.
StepRequested == mode = "paused" /\ last_event'.op = "Resume"
                 /\ last_event'.arg \in StepActions

\* The break location the program is paused at.
PausedLocation == FromFrame(W, Top)

\* The location is the initial suspend of a generator function.
AtInitialSuspend ==
  /\ IsSuspend(PausedLocation) /\ IsGeneratorFunction(Top.fn)
  /\ generator_suspend_id(Top.fn, PausedLocation) = 0

\* PrepareStep took the step for a step out: the last statement position and
\* the last frame count are reset.
SteppedAsOut ==
  /\ thread_local_'.last_statement_position_ = kNoSourcePosition
  /\ thread_local_'.last_frame_count_ = -1

\* PrepareStep took the step as requested: the requested action is recorded,
\* with the statement and the frame count it starts from, and the function
\* is flooded.
SteppedAsRequested ==
  /\ thread_local_'.last_step_action_ = last_event'.arg
  /\ thread_local_'.last_statement_position_
       = SourceStatementPosition(Top.fn, Top.pc)
  /\ thread_local_'.last_frame_count_ = Len(stack)
  /\ \A l \in DOMAIN Locations(Top.fn) :
       IsDebugBreak(ByteAt(debug_infos'[Top.fn].debug_bytecode,
                           Locations(Top.fn)[l].code_offset))

\* C24 as stated: a step at a return or suspend is taken as a step out,
\* except at the initial suspend of a generator, where StepInto and StepOver
\* are taken as requested.
C24_UpgradedExceptAtInitialSuspend ==
  [][StepRequested /\ IsReturnOrSuspend(PausedLocation)
       => IF AtInitialSuspend /\ last_event'.arg # StepOut
          THEN SteppedAsRequested
          ELSE SteppedAsOut]_vars

\* C24: a step at a return is taken as a step out, and so is a step at the
\* initial suspend (suspend id 0) of a generator function and a StepOut at
\* any suspend: the recorded action is StepInto and the step proceeds as
\* StepOut.  StepInto and StepOver at any other suspend (suspend id > 0) are
\* taken as requested.
C24_UpgradedAtReturnAndInitialSuspend ==
  [][StepRequested /\ IsReturnOrSuspend(PausedLocation)
       => IF \/ IsReturn(PausedLocation)
             \/ AtInitialSuspend
             \/ last_event'.arg = StepOut
          THEN /\ SteppedAsOut
               /\ thread_local_'.last_step_action_ = StepInto
          ELSE SteppedAsRequested]_vars

\* C24 witness: paused at the second suspend of gen (suspend id 1), the
\* controller stepped over and the step was taken as StepOver.
C24_Witness ==
  /\ last_event.op = "Resume" /\ last_event.arg = StepOver
  /\ Top.fn = "gen" /\ Top.pc = 2
  /\ thread_local_.last_step_action_ = StepOver
  /\ thread_local_.last_frame_count_ = Len(stack)
  /\ thread_local_.target_frame_count_ = Len(stack)

\* ------------------------------------------------------------------------
\* C25: StepOut inside a function body.
\* ------------------------------------------------------------------------
\* The code offsets of the return and suspend locations of fn.
ReturnOrSuspendOffsets(fn) ==
  {Locations(fn)[l].code_offset :
     l \in {k \in DOMAIN Locations(fn) : IsReturnOrSuspend(Locations(fn)[k])}}

\* The code offsets of fn that hold a debug break after the step.
PatchedOffsetsAfter(fn) ==
  {offset \in 0..(Len(debug_infos'[fn].debug_bytecode) - 1) :
     IsDebugBreak(ByteAt(debug_infos'[fn].debug_bytecode, offset))}

\* The controller answers StepOut while the program is paused inside the
\* body of a function that is not blackboxed.
StepOutInsideBody ==
  /\ StepRequested /\ last_event'.arg = StepOut
  /\ ~IsReturnOrSuspend(PausedLocation)
  /\ ~IsBlackboxed(W, Top.fn)

\* C25: PrepareStep with StepOut at a location that is neither a return nor
\* a suspend, in a function that is not blackboxed, sets
\* fast_forward_to_return_, records the current frame count as the target,
\* and adds debug breaks at exactly the return and suspend locations of the
\* current function: no other location of it changes, and the bytecode of
\* every other function, callers included, is unchanged.
C25_StepOutInsideBodyFloodsReturnsOnly ==
  [][StepOutInsideBody
       => /\ thread_local_'.fast_forward_to_return_
          /\ thread_local_'.target_frame_count_ = Len(stack)
          /\ PatchedOffsetsAfter(Top.fn)
               = PatchedOffsets(Top.fn) \cup ReturnOrSuspendOffsets(Top.fn)
          /\ \A fn \in DOMAIN debug_infos \ {Top.fn} :
               debug_infos'[fn] = debug_infos[fn]]_vars

\* C25 witness: StepOut was answered at the first statement of f, called
\* from main: only the return of f (offset 3) carries a debug break, main
\* carries none, and the step will fast-forward to the return.
C25_Witness ==
  /\ last_event.op = "Resume" /\ last_event.arg = StepOut
  /\ Len(stack) = 2 /\ Top.fn = "f" /\ Top.pc = 0
  /\ thread_local_.fast_forward_to_return_
  /\ thread_local_.target_frame_count_ = 2
  /\ PatchedOffsets("f") = {3}
  /\ PatchedOffsets("main") = {}

\* ------------------------------------------------------------------------
\* C26: the stack walk of StepOut.
\* ------------------------------------------------------------------------
\* The functions of the logical frames of the first n frames of the stack,
\* bottom first.
RECURSIVE LogicalFrames(_)
LogicalFrames(n) ==
  IF n = 0 THEN << >>
  ELSE LogicalFrames(n - 1) \o stack[n].inlined \o <<stack[n].fn>>

\* The frame counts of the logical callers of the current frame that are not
\* blackboxed.
StepOutTargets ==
  {j \in 1..(Len(LogicalFrames(Len(stack))) - 1) :
     ~IsBlackboxed(W, LogicalFrames(Len(stack))[j])}

\* The greatest element of a non-empty set of numbers.
Greatest(S) == CHOOSE j \in S : \A k \in S : k <= j

\* PrepareStep is called and takes the step as StepOut at a return or
\* suspend location or in a blackboxed function.
StepOutWalks ==
  /\ mode = "paused" /\ last_event'.op = "PrepareStep"
  /\ \/ IsReturn(PausedLocation)
     \/ IsSuspend(PausedLocation)
          /\ (last_event'.arg = StepOut \/ AtInitialSuspend)
     \/ IsBlackboxed(W, Top.fn) /\ last_event'.arg \in {StepOut, StepOver}

\* The step left the debug bytecode of fn as it was.
NotPatched(fn) == PatchedOffsetsAfter(fn) = PatchedOffsets(fn)

\* C26: a step taken as StepOut at a return or suspend location, or in a
\* blackboxed function, walks the logical frames of the stack outward, the
\* functions inlined into a frame of optimized code one by one: it skips the
\* current frame and every blackboxed function, sets a debug break at every
\* break location of the first caller that is not blackboxed and of no other
\* function, and records as target_frame_count_ the number of logical frames
\* from the stack bottom up to and including that caller.  When every caller
\* is blackboxed no debug break is set and the target is unchanged.
C26_StepOutFloodsFirstNonBlackboxedCaller ==
  [][StepOutWalks
       => IF StepOutTargets = {}
          THEN /\ \A fn \in Funcs : NotPatched(fn)
               /\ thread_local_'.target_frame_count_
                    = thread_local_.target_frame_count_
          ELSE LET target == Greatest(StepOutTargets)
                   caller == LogicalFrames(Len(stack))[target]
               IN  /\ thread_local_'.target_frame_count_ = target
                   /\ PatchedOffsetsAfter(caller)
                        = BreakLocationOffsets(caller)
                   /\ \A fn \in Funcs \ {caller} : NotPatched(fn)
                   /\ ~thread_local_'.fast_forward_to_return_]_vars

\* C26 witness: f at its return was called from the blackboxed bb, a frame
\* of optimized code of main with bb inlined, above a frame of r: StepOut
\* skipped f and bb and flooded main, the second logical frame of three
\* callers; r and bb carry no debug break.
C26_Witness ==
  /\ last_event.op = "PrepareStep" /\ last_event.arg = StepOut
  /\ Len(stack) = 3
  /\ stack[1].fn = "r" /\ stack[1].inlined = << >>
  /\ stack[2].fn = "bb" /\ stack[2].inlined = <<"main">>
  /\ stack[3].fn = "f" /\ stack[3].pc = 3
  /\ thread_local_.target_frame_count_ = 2
  /\ PatchedOffsets("main") = BreakLocationOffsets("main")
  /\ PatchedOffsets("r") = {} /\ PatchedOffsets("bb") = {}

\* Every caller is blackboxed: nothing was flooded by the StepOut.
C26_WitnessAllBlackboxed ==
  /\ last_event.op = "PrepareStep" /\ last_event.arg = StepOut
  /\ Len(stack) = 3 /\ stack[3].fn = "f" /\ stack[3].pc = 3
  /\ stack[1].fn = "ext" /\ stack[2].fn = "bb" /\ stack[2].inlined = <<"bb">>
  /\ \A fn \in Funcs : PatchedOffsets(fn) = {}
  /\ thread_local_.target_frame_count_ = -1

\* ------------------------------------------------------------------------
\* C27: a break point hit or an armed break-on-next-function-call.
\* ------------------------------------------------------------------------
\* The break points of the location of the top frame that hit.
BreakPointsHit ==
  IF debug_flags.break_points_active_
  THEN SelectSeq(BoundBreakPoints, Fires) ELSE << >>

\* Break() is entered where a break point hits or with
\* break-on-next-function-call armed.
BreakPointOrNextCallBreak ==
  /\ BreakEntered
  /\ BreakPointsHit # << >> \/ thread_local_.break_on_next_function_call_

\* The delegate asks to skip the location and the step action was StepOver
\* or StepInto: OnDebugBreak passes nothing on and calls PrepareStep.
SkippedByDelegate ==
  /\ thread_local_.last_step_action_ \in {StepOver, StepInto}
  /\ ShouldBeSkipped(stack)

\* What ClearStepping leaves, in the state after the step.
SteppingClearedAfter ==
  /\ thread_local_'.last_step_action_ = StepNone
  /\ thread_local_'.last_statement_position_ = kNoSourcePosition
  /\ thread_local_'.ignore_step_into_function_ = NoFunction
  /\ thread_local_'.fast_forward_to_return_ = FALSE
  /\ thread_local_'.last_frame_count_ = -1
  /\ thread_local_'.target_frame_count_ = -1
  /\ thread_local_'.break_on_next_function_call_ = FALSE
  /\ ~hook_on_function_call_'
  /\ \A fn \in Funcs : PatchedOffsetsAfter(fn) = BreakPointOffsets(fn)

BreakWithoutHit ==
  /\ BreakEntered
  /\ BreakPointsHit = << >>
  /\ ~thread_local_.break_on_next_function_call_

\* The location makes Break() enter generator stepping.
EntersGeneratorStepping ==
  /\ IsSuspend(PausedLocation)
  /\ \/ ~IsGeneratorFunction(Top.fn)
     \/ generator_suspend_id(Top.fn, PausedLocation) > 0

\* Break() is entered with StepInto, or with StepOver not deeper than the
\* target, at a location that does not enter generator stepping.
SteppingIntoOrOver ==
  /\ BreakWithoutHit
  /\ \/ thread_local_.last_step_action_ = StepInto
     \/ /\ thread_local_.last_step_action_ = StepOver
        /\ Len(stack) <= thread_local_.target_frame_count_
  /\ ~EntersGeneratorStepping

\* The frame count or the statement position differs from the one recorded
\* by PrepareStep.
FrameOrStatementChanged ==
  \/ Len(stack) # thread_local_.last_frame_count_
  \/ SourceStatementPosition(Top.fn, Top.pc)
       # thread_local_.last_statement_position_

\* Break() reported a step break, exactly one call of OnDebugBreak with no
\* break point, and the program is paused with the stepping state cleared;
\* where the delegate has the location skipped OnDebugBreak passes nothing on
\* and the program runs on.
StepBreakReported ==
  IF SkippedByDelegate
  THEN /\ last_event'.notify = <<[hit |-> << >>, delivered |-> FALSE]>>
       /\ mode' = "running"
  ELSE /\ last_event'.notify = <<[hit |-> << >>, delivered |-> TRUE]>>
       /\ mode' = "paused"
       /\ SteppingClearedAfter

\* Break() reported nothing and re-armed the step action with PrepareStep:
\* the action, the statement and the frame count are recorded anew, the top
\* function is flooded and no other function carries a one-shot break.
StepReArmed ==
  /\ last_event'.notify = << >>
  /\ mode' = "running"
  /\ thread_local_'.last_step_action_ = thread_local_.last_step_action_
  /\ thread_local_'.last_statement_position_
       = SourceStatementPosition(Top.fn, Top.pc)
  /\ thread_local_'.last_frame_count_ = Len(stack)
  /\ thread_local_.last_step_action_ = StepOver
       => thread_local_'.target_frame_count_ = Len(stack)
  /\ PatchedOffsetsAfter(Top.fn) = BreakLocationOffsets(Top.fn)
  /\ \A fn \in Funcs \ {Top.fn} : PatchedOffsetsAfter(fn) = BreakPointOffsets(fn)

\* With no step action Break() reports nothing and changes nothing.
NoStepNoStepBreak ==
  BreakWithoutHit /\ thread_local_.last_step_action_ = StepNone
    => /\ last_event'.notify = << >>
       /\ mode' = "running"
       /\ UNCHANGED <<thread_local_, hook_on_function_call_>>
       /\ \A fn \in Funcs : NotPatched(fn)

\* C28 as stated: with StepOver (not deeper than the target) or StepInto,
\* at a location that does not enter generator stepping, Break() reports a
\* step break exactly when the frame count or the statement position differs
\* from the recorded one, and with StepInto also at every return location;
\* otherwise it reports nothing and re-arms the step action.  With StepNone
\* it never reports a step break.
C28_OnlyIntoReportsAtReturn ==
  [][/\ SteppingIntoOrOver
          => IF \/ FrameOrStatementChanged
                \/ /\ thread_local_.last_step_action_ = StepInto
                   /\ IsReturn(PausedLocation)
             THEN StepBreakReported ELSE StepReArmed
     /\ NoStepNoStepBreak]_vars

\* C28: with StepOver (not deeper than the target) or StepInto, at a
\* location that does not enter generator stepping, Break() reports a step
\* break exactly when the location is a return, or the frame count differs
\* from the recorded one, or the statement position differs from the
\* recorded one: StepOver reports at return locations unconditionally as
\* StepInto does.  Otherwise it reports nothing, clears the one-shot breaks
\* and re-arms the same step action with PrepareStep.  With StepNone it never
\* reports a step break.
C28_IntoAndOverReportAtReturn ==
  [][/\ SteppingIntoOrOver
          => IF FrameOrStatementChanged \/ IsReturn(PausedLocation)
             THEN StepBreakReported ELSE StepReArmed
     /\ NoStepNoStepBreak]_vars

\* C28 witness: t was stepped over from its first location; the calls, of
\* the same statement, were passed without a report, and the step break is
\* reported at the return of t, in the same frame and the same statement.
C28_Witness ==
  /\ mode = "paused" /\ last_event.op = "Break"
  /\ last_event.notify = <<[hit |-> << >>, delivered |-> TRUE]>>
  /\ Len(stack) = 1 /\ Top.fn = "t" /\ Top.pc = 4
  /\ session.request = StepOver /\ session.at_fn = "t" /\ session.at_pc = 0
  /\ SourceStatementPosition("t", 4) = SourceStatementPosition("t", 0)

\* ------------------------------------------------------------------------
\* C29: generator stepping.
\* ------------------------------------------------------------------------
\* Break() is entered with StepInto, or with StepOver not deeper than the
\* target, and no break point hits.
ArrivesSteppingIntoOrOver ==
  /\ BreakWithoutHit
  /\ \/ thread_local_.last_step_action_ = StepInto
     \/ /\ thread_local_.last_step_action_ = StepOver
        /\ Len(stack) <= thread_local_.target_frame_count_

\* The location is the initial yield of a generator function.
AtInitialYield ==
  /\ IsSuspend(PausedLocation)
  /\ IsGeneratorFunction(Top.fn)
  /\ generator_suspend_id(Top.fn, PausedLocation) = 0

\* The suspended generator of the step is resumed, with the function-call
\* hook not set.
RecordedGeneratorResumed ==
  /\ GeneratorResumed
  /\ thread_local_.suspended_generator_ = "G"
  /\ ~hook_on_function_call_

\* No function carries a one-shot break and no step action is in effect.
NothingInstrumented ==
  /\ thread_local_.last_step_action_ = StepNone
  /\ ~hook_on_function_call_
  /\ \A fn \in Funcs : PatchedOffsets(fn) = BreakPointOffsets(fn)

\* C29: when a StepInto or a StepOver (not deeper than the target) arrives
\* in Break() at a suspend with a suspend id above 0 and no break point
\* hits, the generator object of the frame is recorded as the suspended
\* generator, no generator having been recorded before; the stepping state
\* is cleared, the one-shot breaks with it, and nothing is reported.  At
\* the initial yield (suspend id 0) of a generator function no generator is
\* recorded.  While a generator is recorded and break-on-next-function-call
\* is not armed nothing is instrumented: no step action, no function-call
\* hook, no one-shot break.  The resume of the recorded generator runs
\* PrepareStepInSuspendedGenerator: StepInto, the generator's function
\* flooded, the record cleared.
C29_GeneratorSteppingDefersInstrumentation ==
  [][/\ (ArrivesSteppingIntoOrOver /\ EntersGeneratorStepping)
          => /\ thread_local_.suspended_generator_ = NoGenerator
             /\ thread_local_'.suspended_generator_ = Top.gen
             /\ Top.gen # NoGenerator
             /\ SteppingClearedAfter
             /\ last_event'.notify = << >>
             /\ mode' = "running"
     /\ (ArrivesSteppingIntoOrOver /\ AtInitialYield)
          => thread_local_'.suspended_generator_ = NoGenerator
     /\ (/\ thread_local_'.suspended_generator_ # NoGenerator
         /\ ~thread_local_'.break_on_next_function_call_)
          => NothingInstrumented'
     /\ RecordedGeneratorResumed
          => /\ thread_local_'.last_step_action_ = StepInto
             /\ Flooded("gen")'
             /\ thread_local_'.suspended_generator_ = NoGenerator]_vars

\* C29 witness: a StepInto or StepOver in the body of the generator arrived
\* at a suspend with an id above 0: the generator is recorded, the program
\* runs on with nothing instrumented and nothing reported.
C29_Witness ==
  /\ last_event.op = "Break" /\ last_event.notify = << >>
  /\ mode = "running"
  /\ Top.fn = "gen" /\ SuspendId["gen"][Top.pc] > 0
  /\ thread_local_.suspended_generator_ = "G"
  /\ session.request \in {StepInto, StepOver} /\ session.at_fn = "gen"
  /\ NothingInstrumented

\* A StepInto arrived at the initial yield of the generator: the step break
\* is reported and no generator is recorded.
C29_WitnessInitialYield ==
  /\ last_event.op = "Break" /\ mode = "paused"
  /\ Top.fn = "gen" /\ Top.pc = 0
  /\ last_event.notify = <<[hit |-> << >>, delivered |-> TRUE]>>
  /\ thread_local_.suspended_generator_ = NoGenerator
  /\ session.request = StepInto

\* ------------------------------------------------------------------------
\* C30: the break at function entry.
\* ------------------------------------------------------------------------
\* Break() is entered for the function called at the top frame, which
\* breaks at entry.
EntryBreakEntered ==
  /\ last_event'.op = "BreakAtEntry"
  /\ last_event'.arg # "disabled"

EntryCallee == CallTarget[Top.fn][Top.pc]

\* The debugger state Break() is entered in: the hook on function call has
\* run.
BeforeEntryBreak == DebugOnFunctionCall(W, EntryCallee)

\* The break points of the function entry that evaluate true.
EntryBreakPointsHit ==
  IF debug_flags.break_points_active_
  THEN SelectSeq(GetBreakPoints(debug_infos[EntryCallee],
                                kBreakAtEntryPosition), Fires)
  ELSE << >>

\* The fields of the stepping state.
SteppingFields ==
  {"last_step_action_", "target_frame_count_", "last_frame_count_",
   "last_statement_position_", "fast_forward_to_return_"}

\* C30: when Break() is entered at the function-entry break location of a
\* function and no break point of the entry evaluates true, with
\* break-on-next-function-call not armed, nothing is reported and the
\* program runs on; the step action, the target and last frame counts, the
\* last statement position, the fast-forward flag and the one-shot breaks of
\* every function are after Break() what they were before it.
C30_EntryBreakWithoutHitLeavesStepping ==
  [][(/\ EntryBreakEntered
      /\ EntryBreakPointsHit = << >>
      /\ ~thread_local_.break_on_next_function_call_)
       => /\ last_event'.notify = << >>
          /\ mode' = "running"
          /\ \A field \in SteppingFields :
               /\ thread_local_'[field] = BeforeEntryBreak.tl[field]
               /\ thread_local_'[field] = thread_local_[field]
          /\ \A fn \in Funcs : NotPatched(fn)]_vars

\* C30 witness: t is stepped over and calls api, whose entry break point has
\* a condition that is false: Break() returned without a report, StepOver
\* is still in effect and t is still flooded.
C30_Witness ==
  /\ last_event.op = "BreakAtEntry" /\ last_event.arg = "api"
  /\ last_event.notify = << >>
  /\ mode = "running"
  /\ Top.fn = "t" /\ Top.pc = 3 /\ Top.entered
  /\ debug_infos["api"].break_at_entry
  /\ thread_local_.last_step_action_ = StepOver
  /\ thread_local_.last_frame_count_ = 1
  /\ thread_local_.last_statement_position_ = 91
  /\ Flooded("t")
  /\ session.request = StepOver

\* ------------------------------------------------------------------------
\* C31: StepOver in a blackboxed function.
\* ------------------------------------------------------------------------
\* PrepareStep(StepOver) is called with the debugger entered in a blackboxed
\* function, at a location that is no return and no suspend.
StepOverInBlackboxed ==
  /\ mode = "paused" /\ last_event'.op = "PrepareStep"
  /\ last_event'.arg = StepOver
  /\ IsBlackboxed(W, Top.fn)
  /\ ~IsReturnOrSuspend(PausedLocation)

\* C31: PrepareStep(StepOver) in a blackboxed function takes the StepOut
\* path: the recorded statement position and frame count are reset, the
\* frames are walked to the first caller that is not blackboxed, which is
\* flooded and whose frame count becomes the target, and the blackboxed
\* function itself is not patched; StepOver stays the recorded step action.
\* No call of PrepareStep, whatever the step action, patches a location of a
\* blackboxed function.
C31_StepOverInBlackboxedStepsOut ==
  [][/\ StepOverInBlackboxed
          => /\ thread_local_'.last_step_action_ = StepOver
             /\ thread_local_'.last_statement_position_ = kNoSourcePosition
             /\ thread_local_'.last_frame_count_ = -1
             /\ ~thread_local_'.fast_forward_to_return_
             /\ NotPatched(Top.fn)
             /\ IF StepOutTargets = {}
                THEN /\ \A fn \in Funcs : NotPatched(fn)
                     /\ thread_local_'.target_frame_count_
                          = thread_local_.target_frame_count_
                ELSE /\ thread_local_'.target_frame_count_
                          = Greatest(StepOutTargets)
                     /\ PatchedOffsetsAfter(
                          LogicalFrames(Len(stack))[Greatest(StepOutTargets)])
                          = BreakLocationOffsets(
                              LogicalFrames(Len(stack))[Greatest(StepOutTargets)])
     /\ last_event'.op = "PrepareStep"
          => \A fn \in Funcs : IsBlackboxed(W, fn) => NotPatched(fn)]_vars

\* C31 witness: StepOver was requested in the blackboxed bb called from
\* main: main is flooded, its frame count is the target, bb is not patched.
C31_Witness ==
  /\ last_event.op = "PrepareStep" /\ last_event.arg = StepOver
  /\ Len(stack) = 2 /\ stack[1].fn = "main" /\ stack[1].inlined = << >>
  /\ Top.fn = "bb" /\ Top.pc = 0
  /\ thread_local_.last_step_action_ = StepOver
  /\ thread_local_.target_frame_count_ = 1
  /\ thread_local_.last_frame_count_ = -1
  /\ PatchedOffsets("main") = BreakLocationOffsets("main")
  /\ PatchedOffsets("bb") = {}

\* ------------------------------------------------------------------------
\* C32: while breaking is disabled a break arrival changes nothing and
\* notifies nobody.  Break and OnException keep breaking disabled (and the
\* debug scope open) for as long as the delegate is being notified, so what
\* the callback's code does -- dispatching patched bytecode, calling
\* functions with the hook set, throwing -- leaves the debugger as it was,
\* and an exception report with such a nested arrival ends in the state it
\* ends in without one.  The disabled flag the call found is kept in its
\* scope and is back when the call returns.  PrepareStepIn and
\* PrepareStepOnThrow change nothing in a debug scope or with breaking
\* disabled.
\* ------------------------------------------------------------------------
ScopeOrDisabled == in_debug_scope(W) \/ debug_flags.break_disabled_

NestedArrival == last_event'.op \in {"Nested", "NestedThrow"}

ThrowWithNestedArrival ==
  last_event'.op = "Throw" /\ last_event'.arg \in {"break", "call"}

C32_DisabledBreakIsNoOp ==
  [][/\ mode = "paused" => ScopeOrDisabled /\ debug_flags.break_disabled_
     /\ NestedArrival
          => /\ UNCHANGED dbg_vars
             /\ last_event'.notify = << >>
     /\ ThrowWithNestedArrival
          => /\ SetW(OnThrow(W, stack, NoNestedOperation))
             /\ Len(last_event'.notify) <= 1
     /\ last_event'.op = "Throw"
          => debug_flags'.break_disabled_ = debug_flags.break_disabled_
     /\ last_event'.op = "Break"
          => IF mode' = "paused"
             THEN /\ debug_flags'.break_disabled_
                  /\ debug_scopes'[Len(debug_scopes')].break_disabled =
                       debug_flags.break_disabled_
             ELSE debug_flags'.break_disabled_ = debug_flags.break_disabled_
     /\ last_event'.op = "Resume"
          => debug_flags'.break_disabled_ =
               debug_scopes[Len(debug_scopes)].break_disabled
     /\ ScopeOrDisabled
          => /\ PrepareStepOnThrow(W, stack) = W
             /\ \A fn \in Funcs : PrepareStepIn(W, fn) = W]_vars

\* A patched bytecode of f was dispatched by the callback's code while the
\* break report was under way, after the controller had requested StepInto.
C32_Witness ==
  /\ last_event.op = "Nested" /\ last_event.arg = "break"
  /\ last_event.fn = "f"
  /\ mode = "paused"
  /\ debug_flags.break_disabled_
  /\ thread_local_.last_step_action_ = StepInto
  /\ hook_on_function_call_

\* ------------------------------------------------------------------------
\* C33: in every reachable state a function whose debug bytecode carries a
\* debug break (of a break point or a one-shot) or whose break-at-entry flag
\* is set has a DebugInfo that is prepared for debug execution, and
\* PrepareFunctionForDebugExecution on a prepared record changes nothing
\* (the debug bytecode is not installed again, no flag is touched).
\* ------------------------------------------------------------------------
C33_PreparedBeforeInstrumented ==
  \A fn \in Funcs :
    /\ (PatchedOffsets(fn) # {} \/ debug_infos[fn].break_at_entry)
         => debug_infos[fn].exists /\ debug_infos[fn].prepared
    /\ (debug_infos[fn].exists /\ debug_infos[fn].prepared)
         => PrepareFunctionForDebugExecution(W, fn) = W

\* StepInto has flooded r while t carries the break of its break point and
\* api breaks at entry.
C33_Witness ==
  /\ debug_infos["api"].break_at_entry /\ debug_infos["api"].prepared
  /\ PatchedOffsets("t") # {} /\ debug_infos["t"].prepared
  /\ PatchedOffsets("r") # {} /\ debug_infos["r"].prepared
  /\ thread_local_.last_step_action_ = StepInto

\* ------------------------------------------------------------------------
\* C34 as claimed: the DebugInfo list and the blackbox hints change only in
\* steps that hold a debug scope while they change them (the scope is open
\* before the step, or the step is a break or an exception report, which
\* open their own).
\* ------------------------------------------------------------------------
BlackboxHints(infos) ==
  [fn \in Funcs |-> <<infos[fn].computed_debug_is_blackboxed,
                      infos[fn].debug_is_blackboxed>>]

MutatesListOrHints ==
  \/ debug_info_list_' # debug_info_list_
  \/ BlackboxHints(debug_infos') # BlackboxHints(debug_infos)

BreakPointIds(infos, fn) ==
  UNION {{infos[fn].break_points[i].break_points[j] :
            j \in DOMAIN infos[fn].break_points[i].break_points} :
         i \in DOMAIN infos[fn].break_points}
BreakPointCount(infos) ==
  GetBreakPointCount(infos["f"]) + GetBreakPointCount(infos["r"])

C35_BreakpointIdsAreUnique ==
  [][/\ last_event'.op = "SetBreakPointForScript"
          => \A fn \in Funcs : \A id \in BreakPointIds(debug_infos, fn) :
               thread_local_'.last_breakpoint_id_ > id
     /\ BreakPointIds(debug_infos', "f") \cap BreakPointIds(debug_infos', "r")
          = {}
     /\ last_event'.op = "RemoveBreakpoint"
          => BreakPointCount(debug_infos') >= BreakPointCount(debug_infos) - 1
     /\ last_event'.op \in {"Break", "Resume"}
          => thread_local_'.last_breakpoint_id_ =
               thread_local_.last_breakpoint_id_]_vars

\* The break point of the program's thread in f and the break point of the
\* other thread in r have the same id.
C35_Witness ==
  /\ BreakPointIds(debug_infos, "f") \cap BreakPointIds(debug_infos, "r") # {}
  /\ mode = "running"

\* ------------------------------------------------------------------------
\* C36 as claimed: when a MoveEvent(from, to) with from # to returns, to is
\* tracked exactly if from was tracked and from is not tracked any more, and
\* when an AllocationEvent(addr) returns, addr is tracked and nothing else
\* in the set has changed, whatever MoveEvent ran on another thread in the
\* meantime.
\* ------------------------------------------------------------------------
MoveEventReturns(t) == tracker.at[t].pc = "update" /\ tracker'.at[t].pc = "idle"
InsertionReturns == tracker.at[Mutator].pc = "inserting" /\ tracker'.at[Mutator].pc = "idle"

C36_NoInsertionLostOrCorrupted ==
  [][/\ \A t \in CollectorThreads :
          MoveEventReturns(t)
            => /\ tracker.at[t].to \in tracker'.objects_
                    <=> tracker.at[t].tracked_before
               /\ tracker.at[t].from \notin tracker'.objects_
     /\ InsertionReturns
          => tracker'.objects_ = tracker.objects_ \cup {tracker.at[Mutator].to}]_vars

\* A collector thread, holding the mutex, has looked up or changed the set
\* while an insertion of the mutator was under way.
C36_Witness == Inserting(tracker) /\ tracker.at[Mutator].raced

\* ------------------------------------------------------------------------
\* C37: user break points survive stepping.
\* ------------------------------------------------------------------------
\* The patched code offsets of fn in the DebugInfos infos, and the offsets
\* of the break locations of fn that hold a user break point there.
PatchedOffsetsIn(infos, fn) ==
  {offset \in 0..(Len(infos[fn].debug_bytecode) - 1) :
     IsDebugBreak(ByteAt(infos[fn].debug_bytecode, offset))}
BreakPointOffsetsIn(infos, fn) ==
  IF infos[fn].can_break_at_entry THEN {}
  ELSE
  {Locations(fn)[SkipToPosition(Locations(fn),
                                infos[fn].break_points[i].source_position)
                 + 1].code_offset :
     i \in {j \in DOMAIN infos[fn].break_points :
              Len(infos[fn].break_points[j].break_points) > 0}}

\* Every location of a user break point carries a debug break.
UserBreakPointsPatched(infos) ==
  \A fn \in Funcs :
    infos[fn].has_break_info
      => BreakPointOffsetsIn(infos, fn) \subseteq PatchedOffsetsIn(infos, fn)

\* The step flooded a function: a step request answered by the controller,
\* or the hook on function call at a call or a generator resumption.
FloodStep ==
  /\ last_event'.op \in {"Resume", "Call", "ResumeGenerator"}
  /\ \E fn \in Funcs :
       PatchedOffsetsIn(debug_infos', fn) \ PatchedOffsets(fn) # {}

\* No one-shot break is in place: the patched locations are the locations
\* of the user break points.
NoOneShotIn(infos) ==
  \A fn \in Funcs : PatchedOffsetsIn(infos, fn) = BreakPointOffsetsIn(infos, fn)

\* C37 as claimed: in every state a step leads to (after ClearOneShot,
\* ClearStepping, a Break() or a PrepareStep) each location of a user break
\* point carries a debug break, and after a FloodWithOneShot a ClearOneShot
\* leaves the patched locations that were patched before the flood.
C37_FloodThenClearRestoresPatchedSet ==
  [][/\ UserBreakPointsPatched(debug_infos')
     /\ FloodStep
          => \A cleared \in {ClearOneShot(W').infos} : \A fn \in Funcs :
               PatchedOffsetsIn(cleared, fn) = PatchedOffsets(fn)]_vars

\* C37 amended: each location of a user break point carries a debug break
\* in every state a step leads to; after a FloodWithOneShot a ClearOneShot
\* leaves exactly the locations of the user break points patched, which is
\* the set before the flood if no one-shot break was in place before it; and
\* when a Break() has cleared the stepping state and paused, exactly the
\* locations of the user break points are patched.
C37_UserBreakPointsSurviveStepping ==
  [][/\ UserBreakPointsPatched(debug_infos')
     /\ FloodStep
          => \A cleared \in {ClearOneShot(W').infos} :
               /\ NoOneShotIn(cleared)
               /\ \A fn \in Funcs :
                    BreakPointOffsetsIn(cleared, fn)
                      = BreakPointOffsetsIn(debug_infos', fn)
               /\ NoOneShotIn(debug_infos)
                    => \A fn \in Funcs :
                         PatchedOffsetsIn(cleared, fn) = PatchedOffsets(fn)
     /\ mode' = "paused" /\ last_event'.op = "Break"
          => NoOneShotIn(debug_infos')]_vars

\* The program runs on after a StepInto answer with one-shot breaks in main,
\* and the hook on function call has flooded r while f holds a user break
\* point.
C37_Witness ==
  /\ mode = "running" /\ last_event.op = "Call" /\ last_event.arg = "r"
  /\ thread_local_.last_step_action_ = StepInto
  /\ BreakPointOffsets("f") # {}
  /\ PatchedOffsets("r") # {}
  /\ PatchedOffsets("main") # {}

\* ------------------------------------------------------------------------
\* C38: the DebugInfo list.  The list is the sequence of its nodes from the
\* head on; a node is allocated when it is linked and deleted when it is
\* unlinked, so a walk from the head that met a node twice would show as a
\* function that is twice in the sequence.
\* ------------------------------------------------------------------------
NoRecordTwice(list) ==
  \A i, j \in DOMAIN list : list[i] = list[j] => i = j

\* The function has its DebugInfo before, and after, the step.
HadDebugInfo(fn) == debug_infos[fn].exists
KeepsDebugInfo(fn) == debug_infos'[fn].exists

\* The step ran ClearAllDebugInfos.
ClearAllDebugInfosRan ==
  \/ last_event'.op = "RemoveAllCoverageInfos"
  \/ last_event'.op = "SetDebugDelegate" /\ last_event'.arg = "nullptr"

\* C38: after every operation the DebugInfo list holds no record twice and
\* holds exactly the functions that have a DebugInfo; the records that were
\* in the list and are still there follow each other as before, so an
\* unlink keeps every other record reachable from the head; ClearAllDebugInfos
\* keeps exactly the records that are not empty afterwards; and a record
\* that RemoveBreakpoint frees is found by FindDebugInfo in the list.
C38_DebugInfoListIsWellFormed ==
  [][/\ NoRecordTwice(debug_info_list_')
     /\ \A fn \in Funcs :
          debug_infos'[fn].exists <=> InSeq(fn, debug_info_list_')
     /\ SelectSeq(debug_info_list_', HadDebugInfo)
          = SelectSeq(debug_info_list_, KeepsDebugInfo)
     /\ ClearAllDebugInfosRan
          => /\ \A fn \in Funcs :
                  debug_infos'[fn].exists
                    <=> HadDebugInfo(fn) /\ ~IsEmpty(debug_infos'[fn])
             /\ debug_info_list_'
                  = SelectSeq(debug_info_list_, KeepsDebugInfo)
     /\ last_event'.op = "RemoveBreakpoint"
          => \A fn \in Funcs :
               HadDebugInfo(fn) /\ ~KeepsDebugInfo(fn)
                 => FindDebugInfo(debug_info_list_, fn, 1) # 0]_vars

\* RemoveAllCoverageInfos has unlinked the record of f, which held coverage
\* info only, and two other records are still in the list.
C38_Witness ==
  /\ last_event.op = "RemoveAllCoverageInfos"
  /\ ~debug_infos["f"].exists
  /\ Len(debug_info_list_) >= 2

\* ------------------------------------------------------------------------
\* C39 as claimed: whenever a debugger operation has returned, every
\* DebugInfo with instrumented bytecode has the execution mode of the
\* isolate.
\* ------------------------------------------------------------------------
C39_ExecutionModeMatchesIsolate ==
  \A fn \in Funcs :
    debug_infos[fn].exists /\ debug_infos[fn].instrumented
      => debug_infos[fn].debug_execution_mode
           = debug_flags.debug_execution_mode

\* Side effect check mode is active, a side effect check has instrumented s
\* and patched its stores, and ClearStepping has returned leaving the record
\* of s in breakpoints mode.
C39_Witness ==
  /\ Evaluating /\ last_event.op = "ClearStepping"
  /\ debug_infos["s"].exists /\ debug_infos["s"].instrumented
  /\ debug_infos["s"].debug_execution_mode = "kBreakpoints"
  /\ debug_infos["s"].debug_bytecode # OriginalBytecode["s"]

\* ------------------------------------------------------------------------
\* C40 as claimed: every GetCurrentThreadId returns (the process does not
\* abort in its CHECK) an id >= 1, the id the thread received before if it
\* received one, and an id no other thread has received; TryGetCurrent
\* returns Invalid exactly for a thread that has received no id, and
\* otherwise the id of the thread.
\* ------------------------------------------------------------------------
Returns(t, fn) == thread_ids.at[t].call = fn /\ thread_ids'.at[t].call = "none"

C40_ThreadIdsAreStableAndDistinct ==
  [][/\ ~thread_ids'.aborted
     /\ \A t \in Threads :
          /\ Returns(t, "GetCurrentThreadId")
               => /\ thread_ids'.at[t].result >= 1
                  /\ thread_ids.at[t].received \subseteq {thread_ids'.at[t].result}
                  /\ \A u \in Threads \ {t} :
                       thread_ids'.at[t].result \notin thread_ids.at[u].received
          /\ Returns(t, "TryGetCurrent")
               => /\ thread_ids'.at[t].result = Invalid
                       <=> thread_ids.at[t].received = {}
                  /\ thread_ids'.at[t].result # Invalid
                       => thread_ids'.at[t].result \in thread_ids.at[t].received]_vars

\* A thread has received two ids: the key under which it had stored its
\* first id was replaced by the key another thread created.
C40_Witness ==
  \E t \in Threads :
    /\ Cardinality(thread_ids.at[t].received) = 2
    /\ thread_ids.created = 2

====
